---- MODULE Spec2Model ----
(***************************************************************************)
(* A model of rusty-sheet's sheet model (src/spreadsheet/sheet.rs), of the *)
(* cell loops of its four decoders (xlsx.rs, xlsb.rs, xls.rs, ods.rs) and  *)
(* of the chunk-emit function of its table functions (extension/).         *)
(*                                                                         *)
(* Option<usize> is a set with at most one element: None is {} and Some(v) *)
(* is {v}.  A Sheet is a record with the fields of struct Sheet; its       *)
(* methods are operators from records to records.                          *)
(***************************************************************************)
EXTENDS Integers, Naturals, Sequences, FiniteSets, TLC

VARIABLES
    sheet,      \* the Sheet under construction / finished (struct Sheet)
    criteria,   \* the Criteria of the read (end_at_empty_row, error_as_null)
    plan,       \* the shape of the file being read (an input)
    reader,     \* the locals of a decoder's read_sheets loop (SpecRead)
    phase,      \* "reading" | "finished" | "panicked" | "failed"
    last,       \* the last chunk(i) call: <<>> or <<i, result>>
    func,       \* the init state and the calls of the chunk-emit function (SpecFunc)
    bind,       \* the bind data of the table function: shared strings, columns
    args,       \* the arguments of a function that is applied on its own
    result      \* None, or Some(the value the function returns for args)

vars == <<sheet, criteria, plan, reader, phase, last, func, bind, args, result>>

----------------------------------------------------------------------------
(* Option *)

None == {}

Some(v) == {v}

Unwrap(o) == CHOOSE v \in o : TRUE

\* Option::or
OrOpt(o, p) == IF o # {} THEN o ELSE p

Min(a, b) == IF a <= b THEN a ELSE b

----------------------------------------------------------------------------
(* Sheet: src/spreadsheet/sheet.rs *)

CHUNK_SIZE == 2048

\* Sheet::new
Sheet_new(range, limit, skip_empty_rows) ==
    [ cells             |-> <<>>,
      chunks            |-> <<>>,
      chunk_index_lower |-> 0,
      chunk_row_lower   |-> IF skip_empty_rows THEN None ELSE range.row_lower_bound,
      range             |-> range,
      limit             |-> limit,
      skip_empty_rows   |-> skip_empty_rows,
      row_lower_bound   |-> None,
      row_upper_bound   |-> None,
      col_lower_bound   |-> None,
      col_upper_bound   |-> None ]

is_empty(s) == Len(s.cells) = 0

before_row_lower_bound(s, row) ==
    \E b \in s.range.row_lower_bound : row < b

\* after_row_upper_bound with the row at row_lower_bound + limit still inside
after_row_upper_bound_past_limit(s, row) ==
    LET is_out_of_bound    == \E b \in s.range.row_upper_bound : b < row
        is_more_than_limit == \E b \in s.row_lower_bound :
                                  \E l \in s.limit : b + l < row
    IN  is_out_of_bound \/ is_more_than_limit

after_row_upper_bound(s, row) ==
    LET is_out_of_bound    == \E b \in s.range.row_upper_bound : b < row
        is_more_than_limit == \E b \in s.row_lower_bound :
                                  \E l \in s.limit : b + l <= row
    IN  is_out_of_bound \/ is_more_than_limit

before_col_lower_bound(s, col) ==
    \E b \in s.range.col_lower_bound : col < b

after_col_upper_bound(s, col) ==
    \E b \in s.range.col_upper_bound : b < col

\* contains without its test of the column upper bound
contains_any_col_above(s, row, col) ==
    /\ ~before_row_lower_bound(s, row)
    /\ ~after_row_upper_bound(s, row)
    /\ ~before_col_lower_bound(s, col)

contains(s, row, col) ==
    /\ ~before_row_lower_bound(s, row)
    /\ ~after_row_upper_bound(s, row)
    /\ ~before_col_lower_bound(s, col)
    /\ ~after_col_upper_bound(s, col)

\* the `while chunk_row_lower + CHUNK_SIZE < row` loop of update_chunk
RECURSIVE close_full_chunks(_, _, _)
close_full_chunks(s, chunk_row_lower, row) ==
    IF chunk_row_lower + CHUNK_SIZE < row
    THEN close_full_chunks(
             [s EXCEPT !.chunks = Append(@, << chunk_row_lower,
                                               chunk_row_lower + CHUNK_SIZE - 1,
                                               s.chunk_index_lower,
                                               Len(s.cells) >>),
                       !.chunk_index_lower = Len(s.cells)],
             chunk_row_lower + CHUNK_SIZE, row)
    ELSE [s EXCEPT !.chunk_row_lower = Some(chunk_row_lower)]

update_chunk(s, row) ==
    LET s1 == IF s.chunk_row_lower = None
              THEN [s EXCEPT !.chunk_row_lower = Some(row)]
              ELSE s
    IN  IF \E b \in s1.row_upper_bound : b # row
        THEN LET chunk_row_lower == Unwrap(s1.chunk_row_lower)
                 chunk_row_upper == Unwrap(s1.row_upper_bound)
             IN  IF s1.skip_empty_rows /\ chunk_row_upper + 1 < row
                 THEN [s1 EXCEPT !.chunks = Append(@, << chunk_row_lower,
                                                         chunk_row_upper,
                                                         s1.chunk_index_lower,
                                                         Len(s1.cells) >>),
                                 !.chunk_index_lower = Len(s1.cells),
                                 !.chunk_row_lower = Some(row)]
                 ELSE close_full_chunks(s1, chunk_row_lower, row)
        ELSE s1

\* update_bound with the lower column bound taken from the first cell only
update_bound_first_col(s, row, col) ==
    [s EXCEPT !.row_lower_bound = IF @ = None THEN Some(row) ELSE @,
              !.col_lower_bound = IF @ = None THEN Some(col) ELSE @,
              !.col_upper_bound = IF @ = None \/ (\E b \in @ : b < col)
                                  THEN Some(col) ELSE @,
              !.row_upper_bound = Some(row)]

update_bound(s, row, col) ==
    [s EXCEPT !.row_lower_bound = IF @ = None THEN Some(row) ELSE @,
              !.col_lower_bound = IF @ = None \/ (\E b \in @ : col < b)
                                  THEN Some(col) ELSE @,
              !.col_upper_bound = IF @ = None \/ (\E b \in @ : b < col)
                                  THEN Some(col) ELSE @,
              !.row_upper_bound = Some(row)]

push(s, cell) ==
    LET s1 == update_chunk(s, cell.row)
        s2 == update_bound(s1, cell.row, cell.col)
    IN  [s2 EXCEPT !.cells = Append(@, cell)]

\* finish_row_upper_bound without the filter on the two flags
finish_row_upper_bound_unfiltered(s, end_at_empty_row) ==
    OrOpt(s.range.row_upper_bound, s.row_upper_bound)

\* the final high row of finish: range.row_upper_bound filtered, or the data's
finish_row_upper_bound(s, end_at_empty_row) ==
    OrOpt(IF ~s.skip_empty_rows /\ ~end_at_empty_row
          THEN s.range.row_upper_bound ELSE None,
          s.row_upper_bound)

\* finish panics when it unwraps a chunk_row_lower that is None
finish_panics(s, end_at_empty_row) ==
    /\ finish_row_upper_bound(s, end_at_empty_row) # None
    /\ s.chunk_row_lower = None

\* the `while chunk_row_lower <= row_upper_bound` loop of finish
RECURSIVE emit_empty_chunks(_, _, _)
emit_empty_chunks(s, chunk_row_lower, row_upper_bound) ==
    IF chunk_row_lower <= row_upper_bound
    THEN LET chunk_row_upper == Min(row_upper_bound, chunk_row_lower + CHUNK_SIZE - 1)
         IN  emit_empty_chunks(
                 [s EXCEPT !.chunks = Append(@, << chunk_row_lower,
                                                   chunk_row_upper,
                                                   s.chunk_index_lower,
                                                   s.chunk_index_lower >>)],
                 chunk_row_upper + 1, row_upper_bound)
    ELSE s

finish(s, end_at_empty_row) ==
    LET r == finish_row_upper_bound(s, end_at_empty_row)
    IN  IF r # None
        THEN LET row_upper_bound == Unwrap(r)
                 chunk_row_lower == Unwrap(s.chunk_row_lower)
             IN  IF s.chunk_index_lower < Len(s.cells)
                 THEN LET chunk_row_upper ==
                              Min(row_upper_bound, chunk_row_lower + CHUNK_SIZE - 1)
                      IN  emit_empty_chunks(
                              [s EXCEPT !.chunks = Append(@, << chunk_row_lower,
                                                                chunk_row_upper,
                                                                s.chunk_index_lower,
                                                                Len(s.cells) >>),
                                        !.chunk_index_lower = Len(s.cells)],
                              chunk_row_upper + 1, row_upper_bound)
                 ELSE emit_empty_chunks(s, chunk_row_lower, row_upper_bound)
        ELSE s

(* chunk(index): the dense table of Option<&Cell> is kept sparse: `rows` and  *)
(* `cols` are its dimensions and `some` holds, for every position that is     *)
(* Some(cell), the position (offsets from the chunk's row_lower / col_lower)  *)
(* and the index of the cell in sheet.cells; every other position is None.    *)

\* chunk panics when neither the range nor the data gives a column bound
chunk_panics(s, index) ==
    /\ index < Len(s.chunks)
    /\ \/ OrOpt(s.range.col_lower_bound, s.col_lower_bound) = None
       \/ OrOpt(s.range.col_upper_bound, s.col_upper_bound) = None

\* The two nested `for` loops of chunk visit the positions of the table in
\* row-major order with one cursor `index` into cells, which advances only at
\* the position of cells[index].  chunk_at is the row-major number of a cell's
\* position; the cursor stays for good at the first cell of the slice whose
\* position is outside the table or not after the position of the cell before
\* it (chunk_stuck), and exactly the cells before that one are matched.
chunk_at(s, box, i) ==
    (s.cells[i].row - box.row_lower) * (box.col_upper - box.col_lower + 1)
        + (s.cells[i].col - box.col_lower)

chunk_stuck(s, box, index_lower, index_upper) ==
    {i \in (index_lower + 1)..index_upper :
        \/ s.cells[i].row < box.row_lower \/ box.row_upper < s.cells[i].row
        \/ s.cells[i].col < box.col_lower \/ box.col_upper < s.cells[i].col
        \/ (i > index_lower + 1 /\ chunk_at(s, box, i) <= chunk_at(s, box, i - 1))}

chunk_walk(s, box, index_lower, index_upper) ==
    LET stuck == chunk_stuck(s, box, index_lower, index_upper)
    IN  {[row   |-> s.cells[i].row - box.row_lower,
          col   |-> s.cells[i].col - box.col_lower,
          index |-> i - 1] :
            i \in {j \in (index_lower + 1)..index_upper : \A k \in stuck : j < k}}

chunk(s, index) ==
    IF index >= Len(s.chunks)
    THEN None
    ELSE LET c   == s.chunks[index + 1]
             box == [row_lower |-> c[1],
                     row_upper |-> c[2],
                     col_lower |-> Unwrap(OrOpt(s.range.col_lower_bound, s.col_lower_bound)),
                     col_upper |-> Unwrap(OrOpt(s.range.col_upper_bound, s.col_upper_bound))]
         IN  Some([ rows |-> IF box.row_lower <= box.row_upper
                             THEN box.row_upper - box.row_lower + 1 ELSE 0,
                    cols |-> IF box.col_lower <= box.col_upper
                             THEN box.col_upper - box.col_lower + 1 ELSE 0,
                    some |-> chunk_walk(s, box, c[3], c[4]) ])

----------------------------------------------------------------------------
(* The inputs of the model *)

\* the most cells one sheet receives
MaxCells == 3

\* the columns a cell is read at
Cols == {0, 1}

\* the row of the first cell of a file
FirstRows == {0, 1}

\* the distance from a cell's row to the next cell's row
RowSteps == {0, 1, 2, CHUNK_SIZE, 2 * CHUNK_SIZE + 1}

\* Criteria.range: every subset of the four bounds present
Ranges ==
    [ row_lower_bound : {None, Some(1)},
      row_upper_bound : {None, Some(2 * CHUNK_SIZE + 2)},
      col_lower_bound : {None, Some(0)},
      col_upper_bound : {None, Some(1)} ]

\* Criteria.rows_limit
Limits == {None, Some(2)}

\* the cells after a file's dense run, when it has one
MaxTail == 1

\* the lengths of a dense run: a file's leading cells, one per consecutive row
DenseRuns == {CHUNK_SIZE, CHUNK_SIZE + 1, CHUNK_SIZE + 2}

\* a file lists its cells by row, and by column within a row
InFileOrder(s, row, col) ==
    IF is_empty(s)
    THEN TRUE
    ELSE LET prev == s.cells[Len(s.cells)]
         IN  prev.row < row \/ (prev.row = row /\ prev.col < col)

\* the positions the next cell of the file may be at: inside the dense run the
\* next row at column 0, after it any later position RowSteps allows
NextCells(s) ==
    IF is_empty(s)
    THEN {<<row, col>> : row \in FirstRows, col \in IF plan.dense > 0 THEN {0} ELSE Cols}
    ELSE LET prev == s.cells[Len(s.cells)]
         IN  IF Len(s.cells) < plan.dense
             THEN {<<prev.row + 1, 0>>}
             ELSE {rc \in {<<prev.row + d, col>> : d \in RowSteps, col \in Cols} :
                       InFileOrder(s, rc[1], rc[2])}

----------------------------------------------------------------------------
(* Spec: a Sheet is filled by push, closed by finish and read by chunk *)

\* the reader of a run that drives the Sheet directly
NoReader == [fmt |-> "none"]
NoFunc == [index |-> 0]
NoBind == [shared_strings |-> <<>>]
NoArgs == [fn |-> "none"]

Init ==
    /\ \E range \in Ranges, limit \in Limits, skip_empty_rows \in BOOLEAN :
           sheet = Sheet_new(range, limit, skip_empty_rows)
    /\ criteria \in [end_at_empty_row : BOOLEAN, error_as_null : {FALSE}]
    /\ plan = [dense |-> 0, tail |-> MaxCells]
    /\ reader = NoReader
    /\ phase = "reading"
    /\ last = <<>>
    /\ func = NoFunc
    /\ bind = NoBind
    /\ args = NoArgs
    /\ result = None

\* SpecDense: the same, for files that begin with more than CHUNK_SIZE
\* consecutive populated rows, read with the default range
InitDense ==
    /\ \E skip_empty_rows \in BOOLEAN :
           sheet = Sheet_new([row_lower_bound |-> None, row_upper_bound |-> None,
                              col_lower_bound |-> None, col_upper_bound |-> None],
                             None, skip_empty_rows)
    /\ criteria = [end_at_empty_row |-> FALSE, error_as_null |-> FALSE]
    /\ plan \in [dense : DenseRuns, tail : {MaxTail}]
    /\ reader = NoReader
    /\ phase = "reading"
    /\ last = <<>>
    /\ func = NoFunc
    /\ bind = NoBind
    /\ args = NoArgs
    /\ result = None

\* a decoder appends a cell it found inside the range (sheet.contains)
Push ==
    /\ phase = "reading"
    /\ Len(sheet.cells) < plan.dense + plan.tail
    /\ \E rc \in NextCells(sheet) :
           /\ contains(sheet, rc[1], rc[2])
           /\ sheet' = push(sheet, [row |-> rc[1], col |-> rc[2], kind |-> "InlineString"])
    /\ UNCHANGED <<criteria, plan, reader, phase, last, func, bind, args, result>>

\* the decoder reached the end of the sheet: sheet.finish(criteria.end_at_empty_row)
Finish ==
    /\ phase = "reading"
    /\ Len(sheet.cells) >= plan.dense
    /\ IF finish_panics(sheet, criteria.end_at_empty_row)
       THEN phase' = "panicked" /\ UNCHANGED sheet
       ELSE /\ phase' = "finished"
            /\ sheet' = finish(sheet, criteria.end_at_empty_row)
    /\ UNCHANGED <<criteria, plan, reader, last, func, bind, args, result>>

\* a chunk call that consumes what it returns: it moves the sheet's own cursor
ChunkConsuming ==
    /\ phase = "finished"
    /\ \E index \in 0..Len(sheet.chunks) :
           /\ ~chunk_panics(sheet, index)
           /\ last' = <<index, chunk(sheet, index)>>
           /\ sheet' = [sheet EXCEPT !.chunk_index_lower = 0,
                                     !.chunks = [k \in 1..Len(@) |->
                                         IF k = index + 1
                                         THEN <<@[k][1], @[k][2], @[k][4], @[k][4]>>
                                         ELSE @[k]]]
    /\ UNCHANGED <<criteria, plan, reader, phase, func, bind, args, result>>

\* a consumer materializes chunk `index` (one past the end included)
Chunk ==
    /\ phase = "finished"
    /\ \E index \in 0..Len(sheet.chunks) :
           IF chunk_panics(sheet, index)
           THEN phase' = "panicked" /\ UNCHANGED <<sheet, last>>
           ELSE /\ last' = <<index, chunk(sheet, index)>>
                /\ UNCHANGED <<sheet, phase>>
    /\ UNCHANGED <<criteria, plan, reader, func, bind, args, result>>

Next == Push \/ Finish \/ Chunk

Spec == Init /\ [][Next]_vars

SpecDense == InitDense /\ [][Next]_vars

----------------------------------------------------------------------------
(* The cell loops of the decoders' read_sheets.                               *)
(*                                                                            *)
(* A handler works on r = [sheet, last_row, status, tripped]: the Sheet, the  *)
(* local last_row, how the handler leaves the loop ("reading": goes on,       *)
(* "break": leaves the sheet's loop, "failed": returns CellValueError) and    *)
(* whether the end_at_empty_row test has tripped.                             *)
(* A cell of the file is one of Contents: "number" (a kind from the number    *)
(* formats, with a value), "blank" (an inline string whose value is empty),   *)
(* "error" (an error value) and, in ODS, "empty" (no office:value-type).      *)

content_kind(content) ==
    CASE content = "number" -> "Number"
      [] content = "blank"  -> "InlineString"
      [] content = "error"  -> "Error"
      [] OTHER              -> "Empty"

content_has_value(content) == content \in {"number", "error"}

\* the end_at_empty_row test a decoder makes before it accepts a cell
gap_trips(s, last_row, row, end_at_empty_row) ==
    /\ end_at_empty_row
    /\ \E l \in last_row : \/ (is_empty(s) /\ l # row)
                           \/ (~is_empty(s) /\ l + 1 < row)

\* XLSX: Start(c), the value events and End(c) of one cell element
xlsx_cell(r, row, col, content, c) ==
    IF after_row_upper_bound(r.sheet, row)
    THEN [r EXCEPT !.status = "break"]
    ELSE LET kind == IF contains(r.sheet, row, col)
                     THEN IF content = "error" /\ c.error_as_null
                          THEN "Empty" ELSE content_kind(content)
                     ELSE "Empty"
         IN  IF kind # "Empty" /\ content_has_value(content)
             THEN IF kind # "Error"
                  THEN IF gap_trips(r.sheet, r.last_row, row, c.end_at_empty_row)
                       THEN [r EXCEPT !.status = "break", !.tripped = TRUE]
                       ELSE [r EXCEPT !.last_row = Some(row),
                                      !.sheet = push(@, [row |-> row, col |-> col,
                                                         kind |-> kind])]
                  ELSE [r EXCEPT !.status = "failed", !.error = Some(<<row, col>>)]
             ELSE r

\* XLSB: one cell record (BrtCell*, BrtFmla*) of the current row
xlsb_cell(r, row, col, content, c) ==
    IF ~before_row_lower_bound(r.sheet, row) /\ contains(r.sheet, row, col)
    THEN IF gap_trips(r.sheet, r.last_row, row, c.end_at_empty_row)
         THEN [r EXCEPT !.status = "break", !.tripped = TRUE]
         ELSE LET r1 == [r EXCEPT !.last_row = Some(row)]
              IN  IF content_kind(content) # "Error"
                  THEN IF content_has_value(content)
                       THEN [r1 EXCEPT !.sheet = push(@, [row |-> row, col |-> col,
                                                          kind |-> content_kind(content)])]
                       ELSE r1
                  ELSE IF ~c.error_as_null
                       THEN [r1 EXCEPT !.status = "failed", !.error = Some(<<row, col>>)]
                       ELSE r1
    ELSE r

\* XLS: one BOOL_ERR | NUMBER | RK | LABEL_SST | LABEL | FORMULA record
xls_cell(r, row, col, content, c) ==
    IF contains(r.sheet, row, col)
    THEN IF gap_trips(r.sheet, r.last_row, row, c.end_at_empty_row)
         THEN [r EXCEPT !.status = "break", !.tripped = TRUE]
         ELSE LET r1 == [r EXCEPT !.last_row = Some(row)]
              IN  IF content_kind(content) # "Error"
                  THEN IF content_has_value(content)
                       THEN [r1 EXCEPT !.sheet = push(@, [row |-> row, col |-> col,
                                                          kind |-> content_kind(content)])]
                       ELSE r1
                  ELSE IF ~c.error_as_null
                       THEN [r1 EXCEPT !.status = "failed", !.error = Some(<<row, col>>)]
                       ELSE r1
    ELSE r

\* XLS: the `for col in col_lower_bound..=col_upper_bound` loop of a MUL_RK
\* record; its `break` leaves this loop only, not the loop over the records
RECURSIVE xls_mul_rk(_, _, _, _, _)
xls_mul_rk(r, row, col, col_upper_bound, c) ==
    IF col > col_upper_bound
    THEN r
    ELSE IF contains(r.sheet, row, col)
         THEN IF gap_trips(r.sheet, r.last_row, row, c.end_at_empty_row)
              THEN [r EXCEPT !.tripped = TRUE]
              ELSE xls_mul_rk([r EXCEPT !.last_row = Some(row),
                                        !.sheet = push(@, [row |-> row, col |-> col,
                                                           kind |-> "Number"])],
                              row, col + 1, col_upper_bound, c)
         ELSE xls_mul_rk(r, row, col + 1, col_upper_bound, c)

\* ODS: the kind Start(table-cell) gives a cell
ods_kind(content, c) ==
    IF content = "error" /\ c.error_as_null THEN "Empty" ELSE content_kind(content)

\* ODS: the `for col_offset in 0..col_count` loop of End(table-cell); e is the
\* element [row, row_count, col, col_count, content]; its `break` leaves this
\* loop only
RECURSIVE ods_cols(_, _, _, _, _)
ods_cols(r, e, row_number, col_offset, c) ==
    LET col_number == e.col + col_offset
    IN  IF col_offset >= e.col_count
        THEN r
        ELSE IF /\ ~before_col_lower_bound(r.sheet, col_number)
                /\ ~after_col_upper_bound(r.sheet, col_number)
             THEN IF gap_trips(r.sheet, r.last_row, e.row, c.end_at_empty_row)
                  THEN [r EXCEPT !.tripped = TRUE]
                  ELSE LET r1 == [r EXCEPT !.last_row = Some(e.row)]
                       IN  IF ods_kind(e.content, c) # "Error"
                           THEN ods_cols(
                                    IF content_has_value(e.content)
                                    THEN [r1 EXCEPT !.sheet =
                                              push(@, [row  |-> row_number,
                                                       col  |-> col_number,
                                                       kind |-> ods_kind(e.content, c)])]
                                    ELSE r1,
                                    e, row_number, col_offset + 1, c)
                           ELSE [r1 EXCEPT !.status = "failed",
                                           !.error = Some(<<e.row, e.col>>)]
             ELSE ods_cols(r, e, row_number, col_offset + 1, c)

\* ODS: the `for row_offset in 0..row_count` loop of End(table-cell)
RECURSIVE ods_rows(_, _, _, _)
ods_rows(r, e, row_offset, c) ==
    LET row_number == e.row + row_offset
    IN  IF row_offset >= e.row_count \/ r.status = "failed"
        THEN r
        ELSE IF before_row_lower_bound(r.sheet, row_number)
             THEN ods_rows(r, e, row_offset + 1, c)
             ELSE IF after_row_upper_bound(r.sheet, row_number)
                  THEN r
                  ELSE ods_rows(ods_cols(r, e, row_number, 0, c), e, row_offset + 1, c)

\* ODS: Start(table-cell) .. End(table-cell) of one cell element
ods_cell(r, e, c) ==
    IF ods_kind(e.content, c) # "Empty" THEN ods_rows(r, e, 0, c) ELSE r

----------------------------------------------------------------------------
(* The decoders as state machines: one action per record or element of the    *)
(* worksheet stream.  The files are well formed: records come in (row, col)   *)
(* order, XLSX cells carry their reference, XLSB cells follow a row header.   *)
(*                                                                            *)
(* reader.row and reader.col are the place in the stream: in ODS the `row`    *)
(* and `col` of read_sheets, elsewhere the row being read and the least       *)
(* column its next cell can have.  reader.open says that a row is being read  *)
(* (XLSB: after its header, ODS: inside its element).  reader.tripped and     *)
(* reader.dropped record that the end_at_empty_row test has tripped and that  *)
(* a valued cell was left out by the inclusion predicates.                    *)

MaxRow == 2
MaxRepeat == 2
Rows == 0..MaxRow
Formats == {"xlsx", "xlsb", "xls", "ods"}
Contents == {"number", "blank", "error"}
OdsContents == Contents \cup {"empty"}
NoRange == [row_lower_bound |-> None, row_upper_bound |-> None,
            col_lower_bound |-> None, col_upper_bound |-> None]
ReadRanges ==
    { NoRange,
      [NoRange EXCEPT !.row_lower_bound = Some(1)],
      [NoRange EXCEPT !.row_upper_bound = Some(1), !.col_lower_bound = Some(1)],
      [NoRange EXCEPT !.row_lower_bound = Some(1), !.col_upper_bound = Some(0)] }

InitRead ==
    /\ \E range \in ReadRanges, limit \in Limits, skip_empty_rows \in BOOLEAN :
           sheet = Sheet_new(range, limit, skip_empty_rows)
    /\ criteria \in [end_at_empty_row : BOOLEAN, error_as_null : BOOLEAN]
    /\ plan = [dense |-> 0, tail |-> 0]
    /\ \E fmt \in Formats :
           reader = [fmt |-> fmt, last_row |-> sheet.chunk_row_lower,
                     row |-> 0, col |-> 0, row_count |-> 0, open |-> FALSE,
                     tripped |-> FALSE, dropped |-> FALSE,
                     error |-> None, seen |-> {}, first_error |-> None]
    /\ phase = "reading"
    /\ last = <<>>
    /\ func = NoFunc
    /\ bind = NoBind
    /\ args = NoArgs
    /\ result = None

\* the handler's view of the state
Local == [sheet |-> sheet, last_row |-> reader.last_row, status |-> "reading",
          tripped |-> reader.tripped, error |-> None]

\* a valued cell that the handler r neither appended nor stopped at
Dropped(r, content) ==
    /\ content = "number"
    /\ r.status = "reading"
    /\ r.tripped = reader.tripped
    /\ r.sheet.cells = sheet.cells

\* the box of Criteria.range: an absent bound is unbounded
in_range(range, row, col) ==
    /\ \A b \in range.row_lower_bound : b <= row
    /\ \A b \in range.row_upper_bound : row <= b
    /\ \A b \in range.col_lower_bound : b <= col
    /\ \A b \in range.col_upper_bound : col <= b

\* the reader after it has read cells of one content at the positions `at`:
\* reader.seen collects the positions inside the range that hold a value, and
\* reader.first_error keeps the first position inside the range, in read
\* order, that holds an error value
Read(rd, at, content) ==
    LET inside == {rc \in at : in_range(sheet.range, rc[1], rc[2])}
        first  == CHOOSE rc \in inside :
                      \A o \in inside : rc[1] < o[1] \/ (rc[1] = o[1] /\ rc[2] <= o[2])
    IN  [rd EXCEPT !.seen = IF content = "number" THEN @ \cup inside ELSE @,
                   !.first_error = IF content = "error" /\ inside # {} /\ @ = None
                                   THEN Some(first) ELSE @]

\* the state after a handler: it goes on, leaves the loop for finish, or fails
Settle(r, rd) ==
    /\ reader' = [rd EXCEPT !.last_row = r.last_row, !.tripped = r.tripped,
                            !.error = r.error]
    /\ CASE r.status = "failed" -> phase' = "failed" /\ sheet' = r.sheet
         [] r.status = "break"  ->
                IF finish_panics(r.sheet, criteria.end_at_empty_row)
                THEN phase' = "panicked" /\ sheet' = r.sheet
                ELSE /\ phase' = "finished"
                     /\ sheet' = finish(r.sheet, criteria.end_at_empty_row)
         [] OTHER -> phase' = "reading" /\ sheet' = r.sheet
    /\ UNCHANGED <<criteria, plan, last, func, bind, args, result>>

\* the positions the next cell record of the stream can have
NextRefs == {rc \in Rows \X Cols :
                \/ rc[1] > reader.row
                \/ rc[1] = reader.row /\ rc[2] >= reader.col}

XlsxCell ==
    /\ phase = "reading" /\ reader.fmt = "xlsx"
    /\ \E rc \in NextRefs, content \in Contents :
          LET r == xlsx_cell(Local, rc[1], rc[2], content, criteria)
          IN  Settle(r, Read([reader EXCEPT !.row = rc[1], !.col = rc[2] + 1,
                                            !.dropped = @ \/ Dropped(r, content)],
                             {rc}, content))

XlsbRowHdr ==
    /\ phase = "reading" /\ reader.fmt = "xlsb"
    /\ \E row \in Rows :
          /\ reader.open => row > reader.row
          /\ Settle([Local EXCEPT !.status = IF after_row_upper_bound(sheet, row)
                                             THEN "break" ELSE "reading"],
                    [reader EXCEPT !.row = row, !.col = 0, !.open = TRUE])

XlsbCell ==
    /\ phase = "reading" /\ reader.fmt = "xlsb" /\ reader.open
    /\ \E col \in Cols, content \in Contents :
          /\ col >= reader.col
          /\ LET r == xlsb_cell(Local, reader.row, col, content, criteria)
             IN  Settle(r, Read([reader EXCEPT !.col = col + 1,
                                               !.dropped = @ \/ Dropped(r, content)],
                                {<<reader.row, col>>}, content))

XlsCell ==
    /\ phase = "reading" /\ reader.fmt = "xls"
    /\ \E rc \in NextRefs, content \in Contents :
          LET r == xls_cell(Local, rc[1], rc[2], content, criteria)
          IN  Settle(r, Read([reader EXCEPT !.row = rc[1], !.col = rc[2] + 1,
                                            !.dropped = @ \/ Dropped(r, content)],
                             {rc}, content))

XlsMulRk ==
    /\ phase = "reading" /\ reader.fmt = "xls"
    /\ \E rc \in NextRefs, col_upper_bound \in Cols :
          /\ rc[2] < col_upper_bound
          /\ Settle(xls_mul_rk(Local, rc[1], rc[2], col_upper_bound, criteria),
                    Read([reader EXCEPT !.row = rc[1], !.col = col_upper_bound + 1],
                         {rc[1]} \X (rc[2]..col_upper_bound), "number"))

OdsRowStart ==
    /\ phase = "reading" /\ reader.fmt = "ods" /\ ~reader.open
    /\ \E row_count \in 1..MaxRepeat :
          /\ reader.row + row_count <= MaxRow + 1
          /\ Settle(Local, [reader EXCEPT !.row_count = row_count, !.col = 0,
                                          !.open = TRUE])

OdsCell ==
    /\ phase = "reading" /\ reader.fmt = "ods" /\ reader.open
    /\ \E col_count \in 1..MaxRepeat, content \in OdsContents :
          /\ reader.col + col_count <= Cardinality(Cols)
          /\ Settle(ods_cell(Local, [row |-> reader.row, row_count |-> reader.row_count,
                                     col |-> reader.col, col_count |-> col_count,
                                     content |-> content], criteria),
                    Read([reader EXCEPT !.col = @ + col_count],
                         (reader.row..(reader.row + reader.row_count - 1))
                             \X (reader.col..(reader.col + col_count - 1)),
                         content))

OdsRowEnd ==
    /\ phase = "reading" /\ reader.fmt = "ods" /\ reader.open
    /\ LET row == reader.row + reader.row_count
       IN  Settle([Local EXCEPT !.status = IF after_row_upper_bound(sheet, row)
                                           THEN "break" ELSE "reading"],
                  [reader EXCEPT !.row = row, !.open = FALSE])

\* the end of the sheet's data: the loop ends and read_sheets calls finish
EndOfSheet ==
    /\ phase = "reading" /\ reader.fmt \in Formats
    /\ reader.fmt = "ods" => ~reader.open
    /\ Settle([Local EXCEPT !.status = "break"], reader)

NextRead ==
    \/ XlsxCell
    \/ XlsbRowHdr \/ XlsbCell
    \/ XlsCell \/ XlsMulRk
    \/ OdsRowStart \/ OdsCell \/ OdsRowEnd
    \/ EndOfSheet

SpecRead == InitRead /\ [][NextRead]_vars

----------------------------------------------------------------------------
(* The chunk-emit function `func` of the table functions, called by several   *)
(* threads on one init state.  func.index is the AtomicUsize of the init      *)
(* data; a call is two steps, the fetch_add and the rest of the body, and     *)
(* func.call[t] holds the `index` of thread t's call between the two.         *)
(* func.out lists, in the order the calls end, every call's index and the     *)
(* length it gives the output chunk.                                          *)

MaxThreads == 3
MaxCalls == 5
MaxChunks == 2
Threads == 1..MaxThreads

\* a finished Sheet of n chunks: one cell, and a range of n chunks of rows
FuncSheet(n) ==
    IF n = 0
    THEN finish(Sheet_new(NoRange, None, FALSE), FALSE)
    ELSE finish(push(Sheet_new([NoRange EXCEPT
                                   !.row_upper_bound = Some((n - 1) * CHUNK_SIZE)],
                               None, FALSE),
                     [row |-> 0, col |-> 0, kind |-> "Number"]),
                FALSE)

\* a load in the place of the fetch_add: the counter is read and left as it is
fetch_load(index, val) == [old |-> index, new |-> index]

\* AtomicUsize::fetch_add: the value before, and the value stored
fetch_add(index, val) == [old |-> index, new |-> index + val]

InitFunc ==
    /\ \E n \in 0..MaxChunks : sheet = FuncSheet(n)
    /\ criteria = [end_at_empty_row |-> FALSE, error_as_null |-> FALSE]
    /\ plan = [dense |-> 0, tail |-> 0]
    /\ reader = NoReader
    /\ phase = "finished"
    /\ last = <<>>
    /\ func = [index |-> 0, call |-> [t \in Threads |-> None], out |-> <<>>]
    /\ bind = NoBind
    /\ args = NoArgs
    /\ result = None

\* the calls made so far
Calls == Len(func.out) + Cardinality({t \in Threads : func.call[t] # None})

\* `let index = init.index.fetch_add(1, Ordering::Relaxed)`
FuncFetch(t) ==
    /\ func.call[t] = None
    /\ Calls < MaxCalls
    /\ LET f == fetch_add(func.index, 1)
       IN  func' = [func EXCEPT !.index = f.new, !.call[t] = Some(f.old)]
    /\ UNCHANGED <<sheet, criteria, plan, reader, phase, last, bind, args, result>>

\* the length the body of func gives the output for `index`
func_len(s, index) ==
    IF index < Len(s.chunks)
    THEN IF chunk(s, index) # None THEN Unwrap(chunk(s, index)).rows ELSE 0
    ELSE 0

\* the body of func after the fetch_add
FuncEmit(t) ==
    /\ func.call[t] # None
    /\ LET index == Unwrap(func.call[t])
       IN  func' = [func EXCEPT !.call[t] = None,
                                !.out = Append(@, [index |-> index,
                                                   len   |-> func_len(sheet, index)])]
    /\ UNCHANGED <<sheet, criteria, plan, reader, phase, last, bind, args, result>>

NextFunc == \E t \in Threads : FuncFetch(t) \/ FuncEmit(t)

SpecFunc == InitFunc /\ [][NextFunc]_vars

----------------------------------------------------------------------------
(* Shared strings: the table the bind step loads with                         *)
(* load_shared_strings(None), the SharedString cells the XLSX, XLSB and XLS   *)
(* decoders append, and the Varchar writer that looks their value up.  A      *)
(* cell's value is text, a sequence of characters.  The cells of this part    *)
(* carry their value; the file is read without a range.                       *)

MaxStrings == 2
MaxSstCells == 2
Digits == <<"0", "1", "2", "3", "4", "5", "6", "7", "8", "9">>

\* usize::to_string
RECURSIVE to_string(_)
to_string(n) ==
    IF n < 10 THEN <<Digits[n + 1]>>
              ELSE to_string(n \div 10) \o <<Digits[(n % 10) + 1]>>

\* the value of a decimal digit, None for any other character
digit_value(ch) ==
    {d \in 0..9 : Digits[d + 1] = ch}

\* str::parse::<usize>: the number a text of decimal digits denotes, None for
\* an empty text and for a text with another character
RECURSIVE parse_usize(_)
parse_usize(text) ==
    IF Len(text) = 0 \/ \E k \in 1..Len(text) : digit_value(text[k]) = None
    THEN None
    ELSE IF Len(text) = 1
         THEN digit_value(text[1])
         ELSE Some(Unwrap(parse_usize(SubSeq(text, 1, Len(text) - 1))) * 10
                   + Unwrap(digit_value(text[Len(text)])))

SstFormats == {"xlsx", "xlsb", "xls"}

\* the indexes a cell record of the file can hold
SstIndexes == 0..MaxStrings \cup {10}

\* XLSX: the text of <v> in a cell with t="s"; XLSB: the u32 at offset 8 of
\* BrtCellIsst; XLS: the index of LABEL_SST; the binary formats format it
SstValues(fmt) ==
    IF fmt = "xlsx"
    THEN {to_string(i) : i \in SstIndexes} \cup {<<"x">>}
    ELSE {to_string(i) : i \in SstIndexes}

\* load_shared_strings(None): every string of the workbook, in file order
load_shared_strings(count) == [i \in 1..count |-> <<"s">> \o to_string(i - 1)]

InitStrings ==
    /\ sheet = Sheet_new(NoRange, None, FALSE)
    /\ criteria = [end_at_empty_row |-> FALSE, error_as_null |-> FALSE]
    /\ plan = [dense |-> 0, tail |-> MaxSstCells]
    /\ \E fmt \in SstFormats : reader = [fmt |-> fmt]
    /\ phase = "reading"
    /\ last = <<>>
    /\ func = NoFunc
    /\ \E count \in 0..MaxStrings :
           bind = [shared_strings |-> load_shared_strings(count)]
    /\ args = NoArgs
    /\ result = None

\* a cell record of a shared string: the decoder appends it with the value
\* the file holds
SstCell ==
    /\ phase = "reading"
    /\ Len(sheet.cells) < plan.tail
    /\ \E rc \in Rows \X Cols, value \in SstValues(reader.fmt) :
          /\ InFileOrder(sheet, rc[1], rc[2])
          /\ contains(sheet, rc[1], rc[2])
          /\ sheet' = push(sheet, [row |-> rc[1], col |-> rc[2],
                                   kind |-> "SharedString", value |-> value])
    /\ UNCHANGED <<criteria, plan, reader, phase, last, func, bind, args, result>>

\* write_to_vector for a Varchar column and the SharedString cell cells[i]:
\* the parse can fail, and the lookup panics when the index is out of bounds
WriteSharedString ==
    /\ phase = "finished"
    /\ \E i \in 1..Len(sheet.cells) :
          LET index == parse_usize(sheet.cells[i].value)
          IN  IF index = None
              THEN phase' = "failed" /\ UNCHANGED last
              ELSE IF Unwrap(index) >= Len(bind.shared_strings)
                   THEN phase' = "panicked" /\ UNCHANGED last
                   ELSE /\ last' = <<i, bind.shared_strings[Unwrap(index) + 1]>>
                        /\ UNCHANGED phase
    /\ UNCHANGED <<sheet, criteria, plan, reader, func, bind, args, result>>

NextStrings == SstCell \/ Finish \/ WriteSharedString

SpecStrings == InitStrings /\ [][NextStrings]_vars

----------------------------------------------------------------------------
(* Functions applied on their own: the arguments are drawn in the initial     *)
(* state and one step stores what the function returns for them.  The rest    *)
(* of the state stays as Idle has it.                                         *)

Idle ==
    /\ sheet = Sheet_new(NoRange, None, FALSE)
    /\ criteria = [end_at_empty_row |-> FALSE, error_as_null |-> FALSE]
    /\ plan = [dense |-> 0, tail |-> 0]
    /\ reader = NoReader
    /\ phase = "idle"
    /\ last = <<>>
    /\ func = NoFunc
    /\ bind = NoBind
    /\ result = None

Return(value) ==
    /\ result = None
    /\ result' = Some(value)
    /\ UNCHANGED <<sheet, criteria, plan, reader, phase, last, func, bind, args>>

----------------------------------------------------------------------------
(* Criteria::accept and the sheet name patterns analyze_sheets gives it.      *)
(* Names and patterns are sequences of characters; a pattern is matched as a  *)
(* glob with the wildcards * and ?.                                           *)

MaxPatterns == 2

\* Pattern::matches
RECURSIVE matches(_, _)
matches(pattern, name) ==
    IF pattern = <<>>
    THEN name = <<>>
    ELSE IF Head(pattern) = "*"
         THEN \/ matches(Tail(pattern), name)
              \/ (name # <<>> /\ matches(pattern, Tail(name)))
         ELSE /\ name # <<>>
              /\ (Head(pattern) = "?" \/ Head(pattern) = Head(name))
              /\ matches(Tail(pattern), Tail(name))

\* Criteria::accept: the loop returns true at the first pattern that matches
accept(sheet_name_patterns, sheet_name) ==
    IF sheet_name_patterns # None
    THEN \E k \in 1..Len(Unwrap(sheet_name_patterns)) :
             matches(Unwrap(sheet_name_patterns)[k], sheet_name)
    ELSE TRUE

\* analyze_sheets: the `filter` and `map` over the `sheets` parameter keep the
\* sheet pattern of every entry whose file pattern is absent or matches the
\* spreadsheet's name
RECURSIVE filter_map(_, _)
filter_map(sheets, spreadsheet_name) ==
    IF sheets = <<>>
    THEN <<>>
    ELSE LET it == Head(sheets)
         IN  IF it[1] # None => matches(Unwrap(it[1]), spreadsheet_name)
             THEN <<it[2]>> \o filter_map(Tail(sheets), spreadsheet_name)
             ELSE filter_map(Tail(sheets), spreadsheet_name)

\* analyze_sheets: the sheet_name_patterns of the Criteria for one spreadsheet
patterns_of(sheets, spreadsheet_name) ==
    IF sheets = None
    THEN None
    ELSE Some(filter_map(Unwrap(sheets), spreadsheet_name))

FileNames == {<<"f">>, <<"g">>}
SheetNames == {<<>>, <<"a">>, <<"b">>, <<"a", "b">>}
FilePatterns == {None, Some(<<"f">>), Some(<<"*">>)}
SheetPatterns == {<<"a">>, <<"*", "b">>, <<"?">>}
SheetsParams ==
    {None} \cup {Some(l) : l \in UNION {[1..n -> FilePatterns \X SheetPatterns] :
                                            n \in 1..MaxPatterns}}

InitAccept ==
    /\ Idle
    /\ \E sheets \in SheetsParams, file \in FileNames, name \in SheetNames :
           args = [fn |-> "accept", sheets |-> sheets, file |-> file, name |-> name,
                   sheet_name_patterns |-> patterns_of(sheets, file)]

Accept ==
    /\ args.fn = "accept"
    /\ Return(accept(args.sheet_name_patterns, args.name))

SpecAccept == InitAccept /\ [][Accept]_vars

----------------------------------------------------------------------------
(* ReadSheetsBindData::try_from: the columns of read_sheets over several      *)
(* files.  A file is the sequence of the tables analyze_sheets finds in it, a *)
(* table the sequence of its columns [name, kind].  The state of the loops is *)
(* b = [columns, shared_tables, error]: columns_indexes maps a name to its    *)
(* place in columns, where every name occurs once.  The parameters name no    *)
(* file_name_column and no sheet_name_column, and read_sheets succeeds.       *)

MaxFiles == 2
ColumnNames == {"A", "B"}
ColumnKinds == {"Varchar", "Double"}
ColumnCounts == {1, 2}
TableCounts == {0, 1}

\* the tables of a file: the names of a table's columns differ
Tables ==
    {tb \in UNION {[1..n -> [name : ColumnNames, kind : ColumnKinds]] : n \in ColumnCounts} :
        \A i, j \in DOMAIN tb : tb[i].name = tb[j].name => i = j}

Files == UNION {[1..n -> Tables] : n \in TableCounts}

\* columns_indexes.get(name)
columns_indexes_get(columns, name) ==
    {i - 1 : i \in {k \in 1..Len(columns) : columns[k].name = name}}

\* the `for (index, column) in table.columns.iter().enumerate()` loop, from
\* the column at `index` (0-based) on
RECURSIVE bind_columns(_, _, _, _)
bind_columns(b, file, table, index) ==
    IF index >= Len(table) \/ b.error # None
    THEN b
    ELSE LET column == table[index + 1]
             found  == columns_indexes_get(b.columns, column.name)
         IN  IF found # None
             THEN IF b.columns[Unwrap(found) + 1].kind # column.kind
                  THEN [b EXCEPT !.error =
                           Some([kind |-> "ColumnTypeError", file |-> file,
                                 column |-> column.name,
                                 expected |-> b.columns[Unwrap(found) + 1].kind,
                                 actual |-> column.kind])]
                  ELSE bind_columns(b, file, table, index + 1)
             ELSE bind_columns([b EXCEPT !.columns = Append(@, column)],
                               file, table, index + 1)

\* the `for actual_table in &tables` loop: with union_by_name the table is the
\* actual table, else it is the first of the shared tables
RECURSIVE bind_tables(_, _, _, _, _)
bind_tables(b, file, tables, k, union_by_name) ==
    IF k > Len(tables) \/ b.error # None
    THEN b
    ELSE LET table == IF union_by_name THEN tables[k]
                                       ELSE Unwrap(b.shared_tables)[1]
         IN  bind_tables(bind_columns(b, file, table, 0),
                         file, tables, k + 1, union_by_name)

\* the loop over the spreadsheets: a file without tables is passed over, and
\* without union_by_name the first tables found become the shared tables
RECURSIVE bind_files(_, _, _, _)
bind_files(b, files, f, union_by_name) ==
    IF f > Len(files) \/ b.error # None
    THEN b
    ELSE IF files[f] = <<>>
         THEN bind_files(b, files, f + 1, union_by_name)
         ELSE LET b1 == IF ~union_by_name /\ b.shared_tables = None
                        THEN [b EXCEPT !.shared_tables = Some(files[f])]
                        ELSE b
              IN  bind_files(bind_tables(b1, f, files[f], 1, union_by_name),
                             files, f + 1, union_by_name)

\* ReadSheetsBindData::try_from: Err(ColumnTypeError) or Ok with the columns
try_from(files, union_by_name) ==
    LET b == bind_files([columns |-> <<>>, shared_tables |-> None, error |-> None],
                        files, 1, union_by_name)
    IN  IF b.error # None
        THEN [ok |-> FALSE, error |-> Unwrap(b.error), columns |-> <<>>]
        ELSE [ok |-> TRUE, error |-> [kind |-> "none"], columns |-> b.columns]

InitBind ==
    /\ Idle
    /\ \E files \in [1..MaxFiles -> Files], union_by_name \in BOOLEAN :
           args = [fn |-> "try_from", files |-> files, union_by_name |-> union_by_name]

Bind ==
    /\ args.fn = "try_from"
    /\ Return(try_from(args.files, args.union_by_name))

SpecBind == InitBind /\ [][Bind]_vars

----------------------------------------------------------------------------
(* CellType::parse_custom_number_format.  A format is a sequence of           *)
(* characters; q is the state of the scan, the five flags of the function.    *)

MaxFormatLen == 3

\* one turn of the `for character in format.chars()` loop: the first arm of
\* the match whose pattern and guard hold
scan_char(q, character) ==
    IF q.is_escaped
    THEN [q EXCEPT !.is_escaped = FALSE]
    ELSE IF character \in {"_", "\\"}
    THEN [q EXCEPT !.is_escaped = TRUE]
    ELSE IF character = "\"" /\ q.is_literal
    THEN [q EXCEPT !.is_literal = FALSE]
    ELSE IF character = "\"" /\ ~q.is_literal /\ ~q.is_color
    THEN [q EXCEPT !.is_literal = TRUE]
    ELSE IF character = "]" /\ q.is_color
    THEN [q EXCEPT !.is_color = FALSE]
    ELSE IF character = "[" /\ ~q.is_color /\ ~q.is_literal
    THEN [q EXCEPT !.is_color = TRUE]
    ELSE IF q.is_literal \/ q.is_color
    THEN q
    ELSE IF character \in {"Y", "y", "D", "d"}
    THEN [q EXCEPT !.is_date = TRUE]
    ELSE IF character \in {"H", "h", "S", "s"}
    THEN [q EXCEPT !.is_time = TRUE]
    ELSE q

\* the state of the scan after the first n characters of the format
RECURSIVE scan(_, _)
scan(format, n) ==
    IF n = 0
    THEN [is_escaped |-> FALSE, is_literal |-> FALSE, is_date |-> FALSE,
          is_time |-> FALSE, is_color |-> FALSE]
    ELSE scan_char(scan(format, n - 1), format[n])

parse_custom_number_format(format, is_1904) ==
    LET q == scan(format, Len(format))
    IN  IF q.is_date /\ q.is_time
        THEN IF is_1904 THEN "NumberDateTime1904" ELSE "NumberDateTime1900"
        ELSE IF q.is_date
        THEN IF is_1904 THEN "NumberDate1904" ELSE "NumberDate1900"
        ELSE IF q.is_time
        THEN IF is_1904 THEN "NumberTime1904" ELSE "NumberTime1900"
        ELSE "Number"

FormatChars == {"d", "h", "\"", "[", "]", "\\"}
FormatStrings == UNION {[1..n -> FormatChars] : n \in 0..MaxFormatLen}

\* what a literal or a section can hold beside its date/time letters
ContentChars == {"D", "s", "0", "\\", "_"}
ContentLens == {1, 2}
PieceContents ==
    {c \in UNION {[1..n -> ContentChars] : n \in ContentLens} :
        \E k \in DOMAIN c : c[k] \in {"Y", "y", "D", "d", "H", "h", "S", "s"}}

\* a double-quoted literal and a bracketed section
Pieces == {<<"\"">> \o c \o <<"\"">> : c \in PieceContents}
              \cup {<<"[">> \o c \o <<"]">> : c \in PieceContents}

\* the format with the piece put in after its first `at` characters
insert(format, at, piece) ==
    SubSeq(format, 1, at) \o piece \o SubSeq(format, at + 1, Len(format))

InitFormat ==
    /\ Idle
    /\ \E format \in FormatStrings, piece \in Pieces, is_1904 \in BOOLEAN :
          \E at \in 0..Len(format) :
              args = [fn |-> "parse_custom_number_format", format |-> format,
                      at |-> at, piece |-> piece, is_1904 |-> is_1904]

ParseFormats ==
    /\ args.fn = "parse_custom_number_format"
    /\ Return([before |-> parse_custom_number_format(args.format, args.is_1904),
               after  |-> parse_custom_number_format(
                              insert(args.format, args.at, args.piece), args.is_1904)])

SpecFormat == InitFormat /\ [][ParseFormats]_vars

----------------------------------------------------------------------------
(* Biff8Reader: next() and the sequential reads of a record.  The buffer is   *)
(* a sequence of bytes (buffer[i + 1] is the byte at offset i); reader holds  *)
(* the fields of the struct, and reader.start is the offset of the record     *)
(* the last next() returned, reader.kind what it returned.  plan.records is   *)
(* the file: the kind and the payload size of every physical record.          *)

MaxRecords == 3
MaxPayload == 2
CONTINUE == 60
FORMULA == 6
ReadLengths == {1, 2, 4}

\* u16::to_le_bytes
le_bytes(v) == <<v % 256, v \div 256>>

\* to_u16: u16::from_le_bytes
to_u16(s) == s[1] + 256 * s[2]

\* the bytes of the physical records: a header of kind and size, and a
\* payload whose bytes differ from one another
RECURSIVE encode(_, _)
encode(records, at) ==
    IF records = <<>>
    THEN <<>>
    ELSE le_bytes(Head(records).kind) \o le_bytes(Head(records).size)
             \o [i \in 1..Head(records).size |-> 200 + at + 3 + i]
             \o encode(Tail(records), at + 4 + Head(records).size)

\* get_u16_at for an index inside the buffer
get_u16_at(buffer, index) == to_u16(SubSeq(buffer, index + 1, index + 2))

\* the `while ... == CONTINUE` loop of next
RECURSIVE continue_chunks(_)
continue_chunks(r) ==
    IF r.pointer + 4 < Len(r.buffer) /\ get_u16_at(r.buffer, r.pointer) = CONTINUE
    THEN LET size  == get_u16_at(r.buffer, r.pointer + 2)
             lower == r.pointer + 4
             upper == lower + size
         IN  continue_chunks([r EXCEPT !.pointer = upper,
                                       !.chunks = Append(@, <<lower, upper>>)])
    ELSE r

\* Biff8Reader::next for a reader that has a record left
next(r) ==
    LET kind  == get_u16_at(r.buffer, r.pointer)
        size  == get_u16_at(r.buffer, r.pointer + 2)
        lower == r.pointer + 4
        upper == lower + size
    IN  continue_chunks([r EXCEPT !.index = 0, !.offset = 0, !.pointer = upper,
                                  !.chunks = <<<<lower, upper>>>>,
                                  !.kind = Some(kind), !.start = r.pointer,
                                  !.taken = 0])

\* Biff8Reader::read: up to `length` bytes of the chunk the reader is in
read(r, length) ==
    IF r.index < Len(r.chunks)
    THEN LET lower  == r.chunks[r.index + 1][1]
             upper  == r.chunks[r.index + 1][2]
             source == Min(upper, lower + r.offset)
             target == Min(upper, source + length)
             size   == target - source
         IN  IF source < upper
             THEN [reader |-> IF target = upper
                              THEN [r EXCEPT !.index = @ + 1, !.offset = 0]
                              ELSE [r EXCEPT !.offset = @ + size],
                   data   |-> SubSeq(r.buffer, source + 1, target),
                   size   |-> size]
             ELSE [reader |-> r, data |-> <<>>, size |-> 0]
    ELSE [reader |-> r, data |-> <<>>, size |-> 0]

\* Biff8Reader::read_extract: Ok(data) or Err(NoEnoughDataError)
read_extract(r, length) ==
    LET got == read(r, length)
    IN  [reader |-> got.reader, ok |-> got.size = length,
         data |-> IF got.size = length THEN got.data ELSE <<>>]

\* no read since the last next()
NoRead == [length |-> 0, at |-> 0, ok |-> TRUE, data |-> <<>>]

RecordFiles ==
    {f \in UNION {[1..n -> [kind : {FORMULA, CONTINUE}, size : 0..MaxPayload]] :
                      n \in 1..MaxRecords} : f[1].kind # CONTINUE}

InitBiff8 ==
    /\ sheet = Sheet_new(NoRange, None, FALSE)
    /\ criteria = [end_at_empty_row |-> FALSE, error_as_null |-> FALSE]
    /\ \E records \in RecordFiles :
          /\ plan = [dense |-> 0, tail |-> 0, records |-> records]
          /\ reader = [fmt |-> "biff8", buffer |-> encode(records, 0), pointer |-> 0,
                       chunks |-> <<>>, index |-> 0, offset |-> 0,
                       kind |-> None, start |-> 0, taken |-> 0]
    /\ phase = "reading"
    /\ last = NoRead
    /\ func = NoFunc
    /\ bind = NoBind
    /\ args = NoArgs
    /\ result = None

\* next(): Some(kind) while a record is left, else None and the read ends
Biff8Next ==
    /\ phase = "reading" /\ reader.fmt = "biff8"
    /\ IF reader.pointer + 4 < Len(reader.buffer)
       THEN reader' = next(reader) /\ UNCHANGED phase
       ELSE reader' = [reader EXCEPT !.kind = None] /\ phase' = "finished"
    /\ last' = NoRead
    /\ UNCHANGED <<sheet, criteria, plan, func, bind, args, result>>

\* read_u8 / read_u16 / read_u32 / skip(n): read_extract of the record that
\* next() has returned; an Err ends the read
Biff8Read ==
    /\ phase = "reading" /\ reader.fmt = "biff8" /\ reader.kind # None
    /\ \E length \in ReadLengths :
          LET got == read_extract(reader, length)
          IN  /\ reader' = [got.reader EXCEPT !.taken = @ + length]
              /\ last' = [length |-> length, at |-> reader.taken,
                          ok |-> got.ok, data |-> got.data]
              /\ phase' = IF got.ok THEN "reading" ELSE "failed"
    /\ UNCHANGED <<sheet, criteria, plan, func, bind, args, result>>

NextBiff8 == Biff8Next \/ Biff8Read

SpecBiff8 == InitBiff8 /\ [][NextBiff8]_vars

----------------------------------------------------------------------------
(* RK numbers: Biff8Reader::read_rk_number (XLS) and read_rk_cell (XLSB).
   A payload is its four bytes in file order (little-endian), so that the
   32-bit width and the sign bit are kept. *)

\* the bytes the payloads are drawn from: every combination of the two flag
\* bits, the sign bit set and clear, multiples of 100 and other integers
RkByte0 == {0, 1, 2, 3, 90, 91, 146, 147, 254, 255}
RkByte1 == {0, 1, 2, 255}
RkByte2 == {0, 255}
RkByte3 == {0, 127, 128, 255}

RkPayloads == {<<b0, b1, b2, b3>> : b0 \in RkByte0, b1 \in RkByte1,
                                    b2 \in RkByte2, b3 \in RkByte3}

\* value & mask for a one-bit mask, on the low byte
bit_and(byte, mask) == ((byte \div mask) % 2) * mask

\* u32 as i32: the two's-complement value of four little-endian bytes
to_i32(s) ==
    s[1] + 256 * s[2] + 65536 * s[3]
        + 16777216 * (IF s[4] >= 128 THEN s[4] - 256 ELSE s[4])

\* i32 >> 2: the arithmetic shift rounds towards minus infinity
shr2(value) ==
    IF value >= 0 THEN value \div 4 ELSE -1 - ((-1 - value) \div 4)

\* u32 >> 2 of four little-endian bytes
u32_shr2(s) == (s[1] \div 4) + 64 * s[2] + 16384 * s[3] + 4194304 * s[4]

\* (integer as f64 / 100.0).trunc() as i64: the quotient rounded towards zero.
\* An i32 is exact as f64, and the rounded quotient of an integer below 2^31
\* by 100 is never on the other side of an integer.
div100_trunc(value) ==
    IF value >= 0 THEN value \div 100 ELSE -((-value) \div 100)

\* i64::to_string
i64_to_string(n) == IF n < 0 THEN <<"-">> \o to_string(-n) ELSE to_string(n)

\* the f64 arm: f64::from_bits(upper << 34), divided by 100.0 for a percentage,
\* kept as the bit pattern and the flag (the text of an f64 is not modelled)
rk_f64(upper, is_percentage) ==
    [f64_upper_bits |-> upper, div100 |-> is_percentage]

\* Biff8Reader::read_rk_number after read_u32
read_rk_number(s) ==
    LET is_percentage == bit_and(s[1], 1) # 0
        is_integer == bit_and(s[1], 2) # 0
        value == shr2(to_i32(s))
    IN  IF is_integer
        THEN i64_to_string(IF is_percentage THEN div100_trunc(value) ELSE value)
        ELSE rk_f64(u32_shr2(s), is_percentage)

\* xlsb read_rk_cell: the flags are read from buffer[8], then cleared
read_rk_cell(s) ==
    LET is_percentage == bit_and(s[1], 1) # 0
        is_integer == bit_and(s[1], 2) # 0
        cleared == [s EXCEPT ![1] = s[1] - bit_and(s[1], 1) - bit_and(s[1], 2)]
        value == shr2(to_i32(cleared))
    IN  IF is_integer
        THEN i64_to_string(IF is_percentage THEN div100_trunc(value) ELSE value)
        ELSE rk_f64(u32_shr2(cleared), is_percentage)

InitRk ==
    /\ Idle
    /\ \E s \in RkPayloads : args = [fn |-> "read_rk", payload |-> s]

ReadRk ==
    /\ args.fn = "read_rk"
    /\ Return([xls |-> read_rk_number(args.payload),
               xlsb |-> read_rk_cell(args.payload)])

SpecRk == InitRk /\ [][ReadRk]_vars

----------------------------------------------------------------------------
(* Cell coercions: Cell::to_double, Cell::to_time.
   An f64 is the decimal number its text denotes, kept as its integer part and
   its first nine fractional digits; a count of microseconds is kept as whole
   seconds and microseconds, so that no product leaves the integer range. *)

NumberKinds == {"NumberDateTime1900", "NumberDate1900", "NumberTime1900",
                "NumberDateTime1904", "NumberDate1904", "NumberTime1904"}

\* str::parse::<f64> for the texts the decoders store: digits, with an
\* optional point and at most nine digits after it; None (Err) otherwise
to_double(value) ==
    LET points == {k \in 1..Len(value) : value[k] = "."}
        point == IF points = {} THEN Len(value) + 1
                                ELSE CHOOSE k \in points : TRUE
        whole == parse_usize(SubSeq(value, 1, point - 1))
        frac == SubSeq(value, point + 1, Len(value))
        nano == IF frac = <<>> THEN Some(0)
                ELSE IF Len(frac) > 9 THEN None
                ELSE parse_usize([k \in 1..9 |->
                         IF k <= Len(frac) THEN frac[k] ELSE "0"])
    IN  IF Cardinality(points) > 1 \/ whole = None \/ nano = None
        THEN None
        ELSE Some([whole |-> Unwrap(whole), nano |-> Unwrap(nano)])

\* (fraction * 86_400_000_000f64).round() as i64: a day is 86,400 seconds and
\* a billionth of a day is 86.4 microseconds; halves round away from zero
mul_round(v) ==
    LET a == v.nano \div 1000000
        b == v.nano % 1000000
        \* v.nano * 864 tenths of a microsecond, as hi * 10^6 + lo
        hi == a * 864 + (b * 864) \div 1000000
        lo == (b * 864) % 1000000
        micros == (hi % 10) * 100000 + (lo + 5) \div 10
        seconds == v.whole * 86400 + hi \div 10
    IN  IF micros >= 1000000
        THEN [ok |-> TRUE, seconds |-> seconds + 1, micros |-> micros - 1000000]
        ELSE [ok |-> TRUE, seconds |-> seconds, micros |-> micros]

\* Cell::to_time, the Number* arm and the `_ => Err` arm
to_time(kind, value) ==
    IF kind \in NumberKinds
    THEN LET fraction == to_double(value)
         IN  IF fraction = None THEN [ok |-> FALSE]
                                ELSE mul_round(Unwrap(fraction))
    ELSE [ok |-> FALSE]

TimeKinds == NumberKinds \cup {"Number"}
TimeWholes == {<<"0">>, <<"1">>, <<"2">>}
TimeFractions == {<<>>, <<"5">>, <<"2", "5">>, <<"7", "5">>,
                  <<"0", "0", "0", "0", "0", "0", "0", "0", "1">>,
                  <<"9", "9", "9", "9", "9", "9", "9", "9", "9">>,
                  <<"1", "2", "3", "4", "5", "6", "7", "8", "9">>,
                  <<"0", "0", "0", "0", "0", "0", "0", "0", "0", "1">>}
TimeValues == {IF f = <<>> THEN w ELSE w \o <<".">> \o f :
                   w \in TimeWholes, f \in TimeFractions}

InitTime ==
    /\ Idle
    /\ \E kind \in TimeKinds, value \in TimeValues :
           args = [fn |-> "to_time", kind |-> kind, value |-> value]

ToTime ==
    /\ args.fn = "to_time"
    /\ Return(to_time(args.kind, args.value))

SpecTime == InitTime /\ [][ToTime]_vars

----------------------------------------------------------------------------
(* Cell coercions: Cell::to_date and the Display of a Number*Date cell
   (to_date_string). A NaiveDate is <<year, month, day>> of the proleptic
   Gregorian calendar. *)

\* the number of days from 1970-01-01 to the date
days_from_civil(date) ==
    LET y == IF date[2] <= 2 THEN date[1] - 1 ELSE date[1]
        era == y \div 400
        yoe == y - era * 400
        mp == IF date[2] > 2 THEN date[2] - 3 ELSE date[2] + 9
        doy == (153 * mp + 2) \div 5 + date[3] - 1
        doe == yoe * 365 + yoe \div 4 - yoe \div 100 + doy
    IN  era * 146097 + doe - 719468

\* the date that many days after 1970-01-01
civil_from_days(days) ==
    LET z == days + 719468
        era == z \div 146097
        doe == z - era * 146097
        yoe == (doe - doe \div 1460 + doe \div 36524 - doe \div 146096) \div 365
        doy == doe - (365 * yoe + yoe \div 4 - yoe \div 100)
        mp == (5 * doy + 2) \div 153
        day == doy - (153 * mp + 2) \div 5 + 1
        month == IF mp < 10 THEN mp + 3 ELSE mp - 9
        year == yoe + era * 400 + (IF month <= 2 THEN 1 ELSE 0)
    IN  <<year, month, day>>

\* NaiveDate + Duration::days(n)
add_days(date, n) == civil_from_days(days_from_civil(date) + n)

\* a number in at least `width` digits, zero padded (years from 0 to 9999)
zero_padded(n, width) ==
    LET digits == to_string(n)
    IN  [k \in 1..(width - Len(digits)) |-> "0"] \o digits

\* date.format("%Y-%m-%d").to_string()
format_date(date) ==
    zero_padded(date[1], 4) \o <<"-">> \o zero_padded(date[2], 2)
        \o <<"-">> \o zero_padded(date[3], 2)

\* Cell::to_date without the day Lotus 1-2-3 counts as 1900-02-29
to_date_without_leap_day(kind, value) ==
    LET number == to_double(value)
        days == Unwrap(number).whole
    IN  IF kind \in {"NumberDateTime1900", "NumberDate1900", "NumberTime1900"}
        THEN IF number = None THEN [ok |-> FALSE]
             ELSE [ok |-> TRUE, days |-> days - 25568]
        ELSE IF kind \in {"NumberDateTime1904", "NumberDate1904", "NumberTime1904"}
        THEN IF number = None THEN [ok |-> FALSE]
             ELSE [ok |-> TRUE, days |-> days - 25568 + 1460]
        ELSE [ok |-> FALSE]

\* Cell::to_date, the Number* arms and the `_ => Err` arm
to_date(kind, value) ==
    LET number == to_double(value)
        days == Unwrap(number).whole
    IN  IF kind \in {"NumberDateTime1900", "NumberDate1900", "NumberTime1900"}
        THEN IF number = None THEN [ok |-> FALSE]
             ELSE [ok |-> TRUE,
                   days |-> days - 25568 + (IF days >= 60 THEN -1 ELSE 0)]
        ELSE IF kind \in {"NumberDateTime1904", "NumberDate1904", "NumberTime1904"}
        THEN IF number = None THEN [ok |-> FALSE]
             ELSE [ok |-> TRUE, days |-> days - 25568 + 1460]
        ELSE [ok |-> FALSE]

\* to_date_string
to_date_string(value, is_1904) ==
    LET number == to_double(value)
        days == Unwrap(number).whole
        duration == days + (IF is_1904 THEN 1462
                            ELSE IF days < 60 THEN 1 ELSE 0)
    IN  IF number = None THEN [ok |-> FALSE]
        ELSE [ok |-> TRUE,
              text |-> format_date(add_days(<<1899, 12, 30>>, duration))]

\* Display for Cell: the Number*Date arms; any other kind modelled here is
\* written as its value
fmt(kind, value) ==
    IF kind = "NumberDate1900" THEN to_date_string(value, FALSE)
    ELSE IF kind = "NumberDate1904" THEN to_date_string(value, TRUE)
    ELSE [ok |-> TRUE, text |-> value]

DateKinds == {"NumberDate1900", "NumberDate1904", "Number"}

\* serial days: the first days of either epoch, the days around the 29th of
\* February 1900 of Lotus 1-2-3, year ends, and days of 1970 and of this century
SerialDays == 0..70 \cup {365, 366, 367, 1461, 1462, 25568, 25569, 36526, 45000}

DateValues == {to_string(d) : d \in SerialDays}
                  \cup {to_string(d) \o <<".", "7", "5">> : d \in {0, 59, 60}}

InitDate ==
    /\ Idle
    /\ \/ \E kind \in DateKinds, value \in DateValues :
              args = [fn |-> "to_date", kind |-> kind, value |-> value]
       \/ \E kind \in TimeKinds, value \in DateValues :
              args = [fn |-> "to_date_days", kind |-> kind, value |-> value]

ToDate ==
    /\ args.fn = "to_date"
    /\ Return([date |-> to_date(args.kind, args.value),
               text |-> fmt(args.kind, args.value)])

\* Cell::to_date alone, on a cell of any Number* kind
ToDateDays ==
    /\ args.fn = "to_date_days"
    /\ Return(to_date(args.kind, args.value))

NextDate == ToDate \/ ToDateDays

SpecDate == InitDate /\ [][NextDate]_vars

----------------------------------------------------------------------------
(* Column inference: ColumnType::from, ColumnType::detect *)

MaxCandidates == 3

ColumnTypes == {"Boolean", "BigInt", "Double", "Varchar", "Timestamp", "Date",
                "Time"}

CellTypes == {"Empty", "Boolean", "Number", "NumberDateTime1900",
              "NumberDate1900", "NumberTime1900", "NumberDateTime1904",
              "NumberDate1904", "NumberTime1904", "IsoDateTime", "IsoDuration",
              "InlineString", "SharedString", "Error"}

\* str::contains
str_contains(value, pattern) ==
    \E k \in 1..(Len(value) - Len(pattern) + 1) :
        SubSeq(value, k, k + Len(pattern) - 1) = pattern

\* ColumnType::is_integer: no point, or only zeros after the first point
is_integer(value) ==
    LET points == {k \in 1..Len(value) : value[k] = "."}
        index == CHOOSE k \in points : \A j \in points : k <= j
    IN  points = {} \/ \A k \in (index + 1)..Len(value) : value[k] = "0"

\* ColumnType::from with every cell kind but Empty read as a string
from_all_varchar(cell_type, value) ==
    IF cell_type = "Empty" THEN None ELSE Some("Varchar")

\* ColumnType::from
from(cell_type, value) ==
    IF cell_type = "Boolean" THEN Some("Boolean")
    ELSE IF cell_type = "Number" /\ is_integer(value) THEN Some("BigInt")
    ELSE IF cell_type = "Number" THEN Some("Double")
    ELSE IF cell_type \in {"NumberDateTime1900", "NumberDateTime1904"}
    THEN Some("Timestamp")
    ELSE IF cell_type \in {"NumberDate1900", "NumberDate1904"} THEN Some("Date")
    ELSE IF cell_type \in {"NumberTime1900", "NumberTime1904"} THEN Some("Time")
    ELSE IF cell_type = "IsoDateTime" /\ str_contains(value, <<"1", "9", "0", "0", "-", "0", "1", "-", "0", "1">>)
    THEN Some("Time")
    ELSE IF cell_type = "IsoDateTime" /\ str_contains(value, <<"1", "9", "0", "4", "-", "0", "1", "-", "0", "1">>)
    THEN Some("Time")
    ELSE IF cell_type = "IsoDateTime" /\ str_contains(value, <<"0", "0", ":", "0", "0", ":", "0", "0">>)
    THEN Some("Date")
    ELSE IF cell_type = "IsoDateTime" /\ ~str_contains(value, <<"T">>)
    THEN Some("Date")
    ELSE IF cell_type = "IsoDateTime" THEN Some("Timestamp")
    ELSE IF cell_type = "IsoDuration" THEN Some("Time")
    ELSE IF cell_type \in {"InlineString", "SharedString"} THEN Some("Varchar")
    ELSE None

is_boolean(kind) == kind = "Boolean"
is_int(kind) == kind = "BigInt"
is_float(kind) == kind \in {"BigInt", "Double"}
is_date(kind) == kind = "Date"
is_time(kind) == kind = "Time"
is_datetime(kind) == kind \in {"Timestamp", "Date", "Time"}

\* types.into_iter().filter_map(|it| it).collect()
RECURSIVE some_types(_)
some_types(types) ==
    IF types = <<>> THEN <<>>
    ELSE IF Head(types) = None THEN some_types(Tail(types))
    ELSE <<Unwrap(Head(types))>> \o some_types(Tail(types))

\* ColumnType::detect with the integer-or-float test before the integer test
detect_float_first(candidates) ==
    LET types == some_types(candidates)
        all(p(_)) == \A k \in 1..Len(types) : p(types[k])
    IN  IF types = <<>> THEN "Varchar"
        ELSE IF all(is_boolean) THEN "Boolean"
        ELSE IF all(is_float) THEN "Double"
        ELSE IF all(is_int) THEN "BigInt"
        ELSE IF all(is_date) THEN "Date"
        ELSE IF all(is_time) THEN "Time"
        ELSE IF all(is_datetime) THEN "Timestamp"
        ELSE "Varchar"

\* ColumnType::detect
detect(candidates) ==
    LET types == some_types(candidates)
        all(p(_)) == \A k \in 1..Len(types) : p(types[k])
    IN  IF types = <<>> THEN "Varchar"
        ELSE IF all(is_boolean) THEN "Boolean"
        ELSE IF all(is_int) THEN "BigInt"
        ELSE IF all(is_float) THEN "Double"
        ELSE IF all(is_date) THEN "Date"
        ELSE IF all(is_time) THEN "Time"
        ELSE IF all(is_datetime) THEN "Timestamp"
        ELSE "Varchar"

\* candidate lists: Vec<Option<ColumnType>>
Candidates ==
    UNION {[1..n -> {None} \cup {Some(kind) : kind \in ColumnTypes}] :
               n \in 0..MaxCandidates}

\* the value of the cell of one more sampled row
SampleValues(cell_type) ==
    IF cell_type = "Number"
    THEN {<<"1">>, <<"1", ".", "0">>, <<"1", ".", "5">>, <<"1", ".", "0", ".", "5">>}
    ELSE IF cell_type = "IsoDateTime"
    THEN {<<"1", "9", "0", "0", "-", "0", "1", "-", "0", "1", "T", "1", "0", ":", "3", "0", ":", "0", "0">>, <<"1", "9", "0", "4", "-", "0", "1", "-", "0", "1", "T", "1", "0", ":", "3", "0", ":", "0", "0">>, <<"2", "0", "2", "4", "-", "0", "5", "-", "0", "6", "T", "0", "0", ":", "0", "0", ":", "0", "0">>, <<"2", "0", "2", "4", "-", "0", "5", "-", "0", "6">>, <<"2", "0", "2", "4", "-", "0", "5", "-", "0", "6", "T", "1", "0", ":", "3", "0", ":", "0", "0">>}
    ELSE {<<"1">>}

InitDetect ==
    /\ Idle
    /\ \E types \in Candidates, cell_type \in CellTypes :
           \E value \in SampleValues(cell_type) :
               args = [fn |-> "detect", types |-> types,
                       cell |-> [kind |-> cell_type, value |-> value]]

\* the kind detected for the sample, and for the sample with one more cell
Detect ==
    /\ args.fn = "detect"
    /\ Return([kind |-> detect(args.types),
               grown |-> detect(Append(args.types,
                                       from(args.cell.kind, args.cell.value)))])

SpecDetect == InitDetect /\ [][Detect]_vars

----------------------------------------------------------------------------
(* Cfb::new: the DIFAT walk and the table built from it                     *)
(* (load_file_allocation_table), then the directory chain walk (read_bytes  *)
(* called by load_directories).  A sector holds two 32-bit words instead of *)
(* 128, the header holds one DIFAT word instead of 109, and a word is kept  *)
(* as the i32 of its bits, so that 0xFFFFFFFE is -2 and an unsigned "<" is  *)
(* below_max_reg_sect.  Each loop iteration is one step.                    *)

\* how many entries of a growing vector are kept; a walk that visits no
\* sector twice never has more
MaxWalk == 4

MAX_REG_SECT == -5
END_OF_CHAIN == -2

\* index < MAX_REG_SECT on the unsigned words
below_max_reg_sect(index) == index >= 0 \/ index < MAX_REG_SECT

\* Sectors::get: the slice [(index+1)*size, min(len, (index+2)*size)) of the
\* file, the header being the first 512 bytes; the slice panics when it
\* starts past the end of the file
Sectors_get(sectors, index) ==
    IF index >= 0 /\ index < Len(sectors)
    THEN [ok |-> TRUE, data |-> sectors[index + 1]]
    ELSE IF index = Len(sectors)
         THEN [ok |-> TRUE, data |-> <<>>]
         ELSE [ok |-> FALSE, data |-> <<>>]

\* the first MaxWalk entries of a vector
kept(list) == IF Len(list) > MaxWalk THEN SubSeq(list, 1, MaxWalk) ELSE list

\* count += 1, compared afterwards with a header count that is below MaxWalk;
\* reader.iteration is the number of loop iterations so far, modulo 2
counted(count) == Min(count + 1, MaxWalk)

\* the for loop of load_file_allocation_table over the DIFAT entries from
\* position at on: every regular entry names a sector of the table
RECURSIVE load_table(_, _, _, _, _)
load_table(sectors, entries, at, table, count) ==
    IF at > Len(entries) THEN [ok |-> TRUE, table |-> table, count |-> count]
    ELSE IF ~below_max_reg_sect(entries[at])
         THEN load_table(sectors, entries, at + 1, table, count)
         ELSE LET got == Sectors_get(sectors, entries[at])
              IN  IF ~got.ok THEN [ok |-> FALSE, table |-> table, count |-> count]
                  ELSE load_table(sectors, entries, at + 1,
                                  table \o got.data, counted(count))

SectorWords == {0, 1, END_OF_CHAIN}
CfbFiles ==
    [sectors : [1..2 -> [1..2 -> SectorWords]],
     double_indirect_file_allocation_table : [1..1 -> SectorWords],
     double_indirect_file_allocation_table_shift : SectorWords,
     double_indirect_file_allocation_table_count : {0, 1},
     file_allocation_table_count : {0, 1, 2},
     directory_shift : SectorWords]

InitCfb ==
    /\ sheet = Sheet_new(NoRange, None, FALSE)
    /\ criteria = [end_at_empty_row |-> FALSE, error_as_null |-> FALSE]
    /\ \E file \in CfbFiles :
          /\ plan = [dense |-> 0, tail |-> 0, file |-> file]
          /\ reader = [fmt |-> "cfb",
                       double_indirect_file_allocation_table |->
                           file.double_indirect_file_allocation_table,
                       count |-> 0,
                       index |-> file.double_indirect_file_allocation_table_shift,
                       file_allocation_table |-> <<>>,
                       content |-> <<>>,
                       iteration |-> 0]
    /\ phase = "double_indirect"
    /\ last = <<>>
    /\ func = NoFunc
    /\ bind = NoBind
    /\ args = NoArgs
    /\ result = None

\* one iteration of the while loop of load_file_allocation_table: the sector
\* is appended to the DIFAT, and its last word, popped, is the next sector
CfbDoubleIndirect ==
    /\ phase = "double_indirect" /\ reader.fmt = "cfb"
    /\ below_max_reg_sect(reader.index)
    /\ LET got == Sectors_get(plan.file.sectors, reader.index)
           extended == reader.double_indirect_file_allocation_table \o got.data
       IN  IF ~got.ok \/ extended = <<>>
           THEN phase' = "panicked" /\ UNCHANGED reader
           ELSE /\ reader' = [reader EXCEPT
                       !.double_indirect_file_allocation_table =
                           kept(SubSeq(extended, 1, Len(extended) - 1)),
                       !.index = extended[Len(extended)],
                       !.count = counted(@),
                       !.iteration = (@ + 1) % 2]
                /\ UNCHANGED phase
    /\ UNCHANGED <<sheet, criteria, plan, last, func, bind, args, result>>

\* the end of the DIFAT walk: the two count checks around the for loop, then
\* load_directories starts read_bytes at the directory sector
CfbFileAllocationTable ==
    /\ phase = "double_indirect" /\ reader.fmt = "cfb"
    /\ ~below_max_reg_sect(reader.index)
    /\ LET header == plan.file
           loaded == load_table(header.sectors,
                                reader.double_indirect_file_allocation_table,
                                1, <<>>, reader.count)
       IN  IF reader.count # header.double_indirect_file_allocation_table_count
           THEN phase' = "failed" /\ UNCHANGED reader
           ELSE IF ~loaded.ok
           THEN phase' = "panicked" /\ UNCHANGED reader
           ELSE IF loaded.count # header.file_allocation_table_count
           THEN phase' = "failed" /\ UNCHANGED reader
           ELSE /\ reader' = [reader EXCEPT
                       !.count = loaded.count,
                       !.file_allocation_table = loaded.table,
                       !.index = header.directory_shift,
                       !.content = <<>>]
                /\ phase' = "read_bytes"
    /\ UNCHANGED <<sheet, criteria, plan, last, func, bind, args, result>>

\* one iteration of the while loop of read_bytes: the sector is appended to
\* the content, and the table gives the next sector
CfbReadBytes ==
    /\ phase = "read_bytes" /\ reader.fmt = "cfb"
    /\ below_max_reg_sect(reader.index)
    /\ LET got == Sectors_get(plan.file.sectors, reader.index)
       IN  IF ~got.ok \/ reader.index < 0
                      \/ reader.index >= Len(reader.file_allocation_table)
           THEN phase' = "panicked" /\ UNCHANGED reader
           ELSE /\ reader' = [reader EXCEPT
                       !.content = kept(@ \o got.data),
                       !.index = reader.file_allocation_table[reader.index + 1],
                       !.iteration = (@ + 1) % 2]
                /\ UNCHANGED phase
    /\ UNCHANGED <<sheet, criteria, plan, last, func, bind, args, result>>

\* the end of read_bytes in load_directories: no directory is an error
CfbLoadDirectories ==
    /\ phase = "read_bytes" /\ reader.fmt = "cfb"
    /\ ~below_max_reg_sect(reader.index)
    /\ phase' = IF reader.content = <<>> THEN "failed" ELSE "loaded"
    /\ UNCHANGED <<sheet, criteria, plan, reader, last, func, bind, args, result>>

NextCfb ==
    \/ CfbDoubleIndirect
    \/ CfbFileAllocationTable
    \/ CfbReadBytes
    \/ CfbLoadDirectories

SpecCfb == InitCfb /\ [][NextCfb]_vars

\* Cfb::new runs on the caller's thread, which is never suspended for ever
SpecCfbFair == SpecCfb /\ WF_vars(NextCfb)

----------------------------------------------------------------------------
(* Claims about the sheet model *)

\* the cells of chunk c: the slice cells[iL..iH)
SliceOf(s, c) == (c[3] + 1)..Min(c[4], Len(s.cells))

ChunksOf(s) == {s.chunks[k] : k \in 1..Len(s.chunks)}

\* C1: every chunk (rL, rH, iL, iH) has iL <= iH <= |cells| and every cell of
\* its slice cells[iL..iH) has its row in [rL, rH].
C1_SliceRowsInChunk ==
    \A c \in ChunksOf(sheet) :
        /\ c[3] <= c[4]
        /\ c[4] <= Len(sheet.cells)
        /\ \A i \in SliceOf(sheet, c) :
               c[1] <= sheet.cells[i].row /\ sheet.cells[i].row <= c[2]

\* the column box chunk() materializes: the range's bound, else the data's
ColLower(s) == Unwrap(OrOpt(s.range.col_lower_bound, s.col_lower_bound))

ColUpper(s) == Unwrap(OrOpt(s.range.col_upper_bound, s.col_upper_bound))

\* C2: chunk(i) of a finished Sheet is a table of (rH - rL + 1) rows by
\* (cH - cL + 1) columns that holds every cell of the slice cells[iL..iH) once,
\* at (cell.row - rL, cell.col - cL), and None everywhere else.
C2_ChunkIsDenseTable ==
    (phase = "finished" /\ last # <<>> /\ last[2] # None) =>
        LET c  == sheet.chunks[last[1] + 1]
            t  == Unwrap(last[2])
            cL == ColLower(sheet)
            cH == ColUpper(sheet)
        IN  /\ t.rows = c[2] - c[1] + 1
            /\ t.cols = cH - cL + 1
            /\ t.some = {[row   |-> sheet.cells[i].row - c[1],
                          col   |-> sheet.cells[i].col - cL,
                          index |-> i - 1] : i \in SliceOf(sheet, c)}

\* the row the chunks of a sheet read without skip_empty_rows start at
EffectiveRowLower(s) == OrOpt(s.range.row_lower_bound, s.row_lower_bound)

\* the final high row R the claim names
FinalRowUpper(s, end_at_empty_row) ==
    IF s.range.row_upper_bound # None /\ ~end_at_empty_row
    THEN s.range.row_upper_bound
    ELSE s.row_upper_bound

\* C3: with skip_empty_rows = false, after finish the row ranges of the chunks
\* are ascending, disjoint and gap-free and cover exactly the rows from the
\* effective lower row to the final high row R; no chunk when there is no R.
C3_ChunksTileRows ==
    (phase = "finished" /\ ~sheet.skip_empty_rows) =>
        LET r == FinalRowUpper(sheet, criteria.end_at_empty_row)
            n == Len(sheet.chunks)
        IN  IF r = None \/ Unwrap(r) < Unwrap(EffectiveRowLower(sheet))
            THEN n = 0
            ELSE /\ n >= 1
                 /\ sheet.chunks[1][1] = Unwrap(EffectiveRowLower(sheet))
                 /\ sheet.chunks[n][2] = Unwrap(r)
                 /\ \A k \in 1..n : sheet.chunks[k][1] <= sheet.chunks[k][2]
                 /\ \A k \in 1..(n - 1) : sheet.chunks[k + 1][1] = sheet.chunks[k][2] + 1

C3_Witness ==
    /\ phase = "finished" /\ ~sheet.skip_empty_rows
    /\ sheet.range.row_upper_bound # None
    /\ Len(sheet.cells) >= 2
    /\ Len(sheet.chunks) >= 3
    /\ \E c \in ChunksOf(sheet) : c[3] = c[4]

\* C4: with skip_empty_rows = true, after finish every chunk is a non-empty row
\* group: its slice is non-empty, rL and rH are rows of cells of the slice and
\* every row in [rL, rH] holds a cell of the slice.
C4_ChunksAreRowGroups ==
    (phase = "finished" /\ sheet.skip_empty_rows) =>
        \A c \in ChunksOf(sheet) :
            LET rows == {sheet.cells[i].row : i \in (c[3] + 1)..c[4]}
            IN  /\ c[3] < c[4]
                /\ c[1] <= c[2]
                /\ (c[1]..c[2]) \subseteq rows

\* C5: every chunk closed by push or by finish spans at most CHUNK_SIZE rows.
C5_ChunkSpanBounded ==
    \A c \in ChunksOf(sheet) : c[2] - c[1] + 1 <= CHUNK_SIZE

----------------------------------------------------------------------------
(* Claims about the decoders *)

\* C6: the cells of a Sheet produced by read_sheets are in strictly increasing
\* lexicographic (row, col) order, so that cells of one row are contiguous,
\* also for ODS rows and cells with a -repeated count.
C6_CellsInLexicographicOrder ==
    \A i \in 1..(Len(sheet.cells) - 1) :
        \/ sheet.cells[i].row < sheet.cells[i + 1].row
        \/ /\ sheet.cells[i].row = sheet.cells[i + 1].row
           /\ sheet.cells[i].col < sheet.cells[i + 1].col

InRangeBox(range, row, col) ==
    /\ \A b \in range.row_lower_bound : b <= row
    /\ \A b \in range.row_upper_bound : row <= b
    /\ \A b \in range.col_lower_bound : b <= col
    /\ \A b \in range.col_upper_bound : col <= b

\* C7: every cell a decoder appends has a kind other than Empty and a
\* (row, col) inside Criteria.range, where an absent bound is unbounded.
C7_AppendedCellsInRange ==
    \A i \in 1..Len(sheet.cells) :
        /\ sheet.cells[i].kind # "Empty"
        /\ InRangeBox(sheet.range, sheet.cells[i].row, sheet.cells[i].col)

C7_Witness ==
    /\ reader.fmt \in Formats
    /\ sheet.range.col_upper_bound = Some(0)
    /\ sheet.range.row_lower_bound = Some(1)
    /\ sheet.limit = None
    /\ reader.dropped
    /\ Len(sheet.cells) >= 2

\* C10: with end_at_empty_row = true no cell is appended after an empty row:
\* of two cells appended one after the other, the later one's row is at most
\* the earlier one's row + 1.
C10_NoCellAfterEmptyRow ==
    criteria.end_at_empty_row =>
        \A i \in 1..(Len(sheet.cells) - 1) :
            sheet.cells[i + 1].row <= sheet.cells[i].row + 1

\* the positions of the cells of a Sheet
Appended(s) == {<<s.cells[i].row, s.cells[i].col>> : i \in 1..Len(s.cells)}

\* the first row of the range
FirstRangeRow(range) ==
    IF range.row_lower_bound # None THEN Unwrap(range.row_lower_bound) ELSE 0

\* C11: with end_at_empty_row = true reading stops only at an all-empty row:
\* every valued cell inside the range that lies before the first row of the
\* range without a valued cell inside the range is appended (read without a
\* rows limit, and not aborted by an error cell).
C11_CellsBeforeEmptyRowAppended ==
    (criteria.end_at_empty_row /\ sheet.limit = None /\ phase # "failed") =>
        LET populated == {p[1] : p \in reader.seen}
        IN  \A p \in reader.seen :
                (FirstRangeRow(sheet.range)..(p[1] - 1)) \subseteq populated
                    => p \in Appended(sheet)

\* C12: an Error cell inside the range is never appended: with error_as_null
\* = false the read fails with a CellValueError that carries the reference of
\* the first such cell in read order (read without a rows limit, the cell not
\* lying behind the row where end_at_empty_row has stopped the read), and with
\* error_as_null = true the read does not fail.
C12_ErrorCellFailsOrIsDropped ==
    /\ \A i \in 1..Len(sheet.cells) : sheet.cells[i].kind # "Error"
    /\ (/\ ~criteria.error_as_null
        /\ sheet.limit = None
        /\ ~reader.tripped
        /\ reader.fmt \in Formats
        /\ reader.first_error # None)
           => (phase = "failed" /\ reader.error = reader.first_error)
    /\ (criteria.error_as_null /\ reader.fmt \in Formats)
           => (phase # "failed" /\ reader.error = None)

----------------------------------------------------------------------------
(* Claims about shared strings *)

\* C13: every SharedString cell the XLSX, XLSB and XLS decoders append has a
\* value that is the decimal text of an index smaller than the length of the
\* shared-string table loaded for the workbook.
C13_SharedStringIndexInBounds ==
    \A i \in 1..Len(sheet.cells) :
        sheet.cells[i].kind = "SharedString" =>
            /\ parse_usize(sheet.cells[i].value) # None
            /\ Unwrap(parse_usize(sheet.cells[i].value)) < Len(bind.shared_strings)

----------------------------------------------------------------------------
(* Claims about Criteria *)

\* C14: Criteria.accept(name) is true if and only if sheet_name_patterns is
\* absent, is an empty list, or holds a pattern that matches name.
C14_AcceptIffAbsentEmptyOrMatch ==
    (args.fn = "accept" /\ result # None) =>
        (Unwrap(result) <=>
            \/ args.sheet_name_patterns = None
            \/ args.sheet_name_patterns = Some(<<>>)
            \/ \E k \in 1..Len(Unwrap(args.sheet_name_patterns)) :
                   matches(Unwrap(args.sheet_name_patterns)[k], args.name))

----------------------------------------------------------------------------
(* Claims about the bind step of read_sheets *)

\* two files have a table whose columns at one position differ in kind
KindsDifferAtAPosition(files) ==
    \E f, g \in DOMAIN files :
        /\ files[f] # <<>> /\ files[g] # <<>>
        /\ \E k \in DOMAIN files[f][1] \cap DOMAIN files[g][1] :
               files[f][1][k].kind # files[g][1][k].kind

\* C15: in read_sheets with union_by_name = false over several files, when
\* the column at one position has different kinds in two files, binding fails
\* with ColumnTypeError.
C15_PositionalKindMismatchFails ==
    (/\ args.fn = "try_from"
     /\ result # None
     /\ ~args.union_by_name
     /\ KindsDifferAtAPosition(args.files))
        => (~Unwrap(result).ok /\ Unwrap(result).error.kind = "ColumnTypeError")

----------------------------------------------------------------------------
(* Claims about the number formats *)

\* the place after the first `at` characters of the format is outside any
\* escape, literal and section
OutsideAll(format, at) ==
    LET q == scan(format, at)
    IN  ~q.is_escaped /\ ~q.is_literal /\ ~q.is_color

\* C16: a double-quoted literal or a bracketed section whose content holds
\* date/time letters, possibly among other characters, put into a format at
\* a place outside any escape, literal and section does not change what
\* parse_custom_number_format returns for the format.
C16_LiteralsAndSectionsKeepClass ==
    (/\ args.fn = "parse_custom_number_format"
     /\ result # None
     /\ OutsideAll(args.format, args.at))
        => Unwrap(result).after = Unwrap(result).before

----------------------------------------------------------------------------
(* Claims about the BIFF8 reader *)

\* the offset in the file of the physical record k
RECURSIVE RecordStart(_, _)
RecordStart(records, k) ==
    IF k = 1 THEN 0 ELSE RecordStart(records, k - 1) + 4 + records[k - 1].size

\* the payload of the physical record k
Payload(records, buffer, k) ==
    SubSeq(buffer, RecordStart(records, k) + 5,
                   RecordStart(records, k) + 4 + records[k].size)

\* the payloads of the CONTINUE records from record k on, one after the other
RECURSIVE Continued(_, _, _)
Continued(records, buffer, k) ==
    IF k > Len(records) \/ records[k].kind # CONTINUE
    THEN <<>>
    ELSE Payload(records, buffer, k) \o Continued(records, buffer, k + 1)

\* the payload of the record next() has returned with those of the CONTINUE
\* records that follow it
Logical ==
    LET k == CHOOSE k \in 1..Len(plan.records) :
                 RecordStart(plan.records, k) = reader.start
    IN  Payload(plan.records, reader.buffer, k)
            \o Continued(plan.records, reader.buffer, k + 1)

\* C17: next() never returns a CONTINUE record that follows a record, and a
\* sequential read of n bytes of the record returns the next n bytes of the
\* payloads of the record and of its CONTINUE records taken as one buffer,
\* also when the n bytes lie in two physical records.
C17_ContinueRecordsAreOneBuffer ==
    (reader.fmt = "biff8" /\ reader.kind # None) =>
        /\ reader.kind # Some(CONTINUE)
        /\ last.at + last.length <= Len(Logical) =>
               /\ last.ok
               /\ last.data = SubSeq(Logical, last.at + 1, last.at + last.length)

----------------------------------------------------------------------------
(* Claims about RK numbers *)

\* the signed integer held in the upper 30 bits of a payload
Upper30(s) ==
    (s[1] \div 4) + 64 * s[2] + 16384 * s[3]
        + 4194304 * (IF s[4] >= 128 THEN s[4] - 256 ELSE s[4])

\* the number of hundredths a decimal text denotes: an optional sign, digits,
\* and at most two digits after an optional point; None for any other text
Hundredths(text) ==
    LET negative == Len(text) > 0 /\ text[1] = "-"
        body == IF negative THEN Tail(text) ELSE text
        points == {k \in 1..Len(body) : body[k] = "."}
        point == IF points = {} THEN Len(body) + 1
                                ELSE CHOOSE k \in points : TRUE
        whole == parse_usize(SubSeq(body, 1, point - 1))
        frac == SubSeq(body, point + 1, Len(body))
        cents == IF frac = <<>> THEN Some(0)
                 ELSE IF Len(frac) = 1 THEN parse_usize(frac \o <<"0">>)
                 ELSE IF Len(frac) = 2 THEN parse_usize(frac)
                 ELSE None
    IN  IF whole = None \/ cents = None \/ Cardinality(points) > 1 THEN None
        ELSE Some((IF negative THEN -1 ELSE 1)
                      * (100 * Unwrap(whole) + Unwrap(cents)))

\* C18: for a payload with bit 1 set the decoded integer is the payload as i32
\* shifted right arithmetically by 2; without bit 0 the text is that integer,
\* with bit 0 the text denotes exactly that integer divided by 100, with its
\* fractional part; the XLS and XLSB decoders emit the same text.
C18_RkIntegerTextIsExact ==
    (args.fn = "read_rk" /\ result # None /\ bit_and(args.payload[1], 2) # 0) =>
        LET n == Upper30(args.payload)
            text == Unwrap(result).xls
        IN  /\ Unwrap(result).xlsb = text
            /\ IF bit_and(args.payload[1], 1) = 0
               THEN text = i64_to_string(n)
               ELSE Hundredths(text) = Some(n)

----------------------------------------------------------------------------
(* Claims about the cell coercions *)

\* C19: for a Number* cell whose value has the integer part d and the
\* fractional part f, to_time returns round(f * 86,400,000,000) microseconds
\* whatever d is, so the result is at least 0 and at most 86,400,000,000.
C19_TimeIsFractionOfDay ==
    (args.fn = "to_time" /\ result # None /\ args.kind \in NumberKinds
        /\ to_double(args.value) # None) =>
        LET v == Unwrap(to_double(args.value))
            time == Unwrap(result)
        IN  /\ time.ok
            /\ time = mul_round([whole |-> 0, nano |-> v.nano])
            /\ time.seconds >= 0
            /\ time.seconds < 86400 \/ (time.seconds = 86400 /\ time.micros = 0)

\* C20: for a Number*Date cell whose value is a non-negative whole serial day,
\* in the 1900 epoch and in the 1904 epoch, the day to_date returns (days
\* since 1970-01-01) and the day to_date_string writes as %Y-%m-%d are the
\* same calendar day.
C20_DateAndTextAreSameDay ==
    (args.fn = "to_date" /\ result # None
        /\ args.kind \in {"NumberDate1900", "NumberDate1904"}
        /\ parse_usize(args.value) # None) =>
        /\ Unwrap(result).date.ok
        /\ Unwrap(result).text.ok
        /\ format_date(civil_from_days(Unwrap(result).date.days))
               = Unwrap(result).text.text

\* C21: to_date on a Number* cell with the whole serial day d returns
\* d - 25568 - (1 if d >= 60 else 0) in the 1900 epoch and d - 25568 + 1460 in
\* the 1904 epoch; serial 45000 of the 1900 epoch is day 19431 since 1970-01-01.
C21_SerialDayToEpochDay ==
    (args.fn = "to_date_days" /\ result # None /\ args.kind \in NumberKinds
        /\ parse_usize(args.value) # None) =>
        LET d == Unwrap(parse_usize(args.value))
            is_1904 == args.kind \in {"NumberDateTime1904", "NumberDate1904",
                                      "NumberTime1904"}
        IN  /\ Unwrap(result).ok
            /\ ~is_1904 => Unwrap(result).days
                               = d - 25568 - (IF d >= 60 THEN 1 ELSE 0)
            /\ is_1904 => Unwrap(result).days = d - 25568 + 1460
            /\ (~is_1904 /\ d = 45000) => Unwrap(result).days = 19431

\* serial 45000 of the 1900 epoch has been converted to day 19431
C21_Witness ==
    /\ args.fn = "to_date_days"
    /\ args.kind = "NumberDateTime1900"
    /\ args.value = <<"4", "5", "0", "0", "0">>
    /\ result = Some([ok |-> TRUE, days |-> 19431])

----------------------------------------------------------------------------
(* Claims about column inference *)

\* the kinds present in a candidate list
Present(types) == {kind \in ColumnTypes : \E k \in 1..Len(types) : types[k] = Some(kind)}

\* the kind the priority list gives for a set of present kinds
ByPriority(kinds) ==
    IF kinds = {} THEN "Varchar"
    ELSE IF kinds = {"Boolean"} THEN "Boolean"
    ELSE IF kinds = {"BigInt"} THEN "BigInt"
    ELSE IF kinds \subseteq {"BigInt", "Double"} THEN "Double"
    ELSE IF kinds = {"Date"} THEN "Date"
    ELSE IF kinds = {"Time"} THEN "Time"
    ELSE IF kinds \subseteq {"Timestamp", "Date", "Time"} THEN "Timestamp"
    ELSE "Varchar"

\* a list with its first two candidates exchanged, and with its first
\* candidate moved to the end: every reordering is a chain of these two
Exchanged(types) ==
    IF Len(types) < 2 THEN types
    ELSE <<types[2], types[1]>> \o SubSeq(types, 3, Len(types))

Rotated(types) ==
    IF types = <<>> THEN types ELSE Append(Tail(types), Head(types))

\* C22: detect gives Varchar for a list with no present candidate, Boolean if
\* all are Boolean, else BigInt if all are BigInt, else Double if all are
\* BigInt or Double, else Date if all are Date, else Time if all are Time, else
\* Timestamp if all are Timestamp, Date or Time, else Varchar; the result
\* depends on the kinds present only, not on their order.
C22_DetectByPriority ==
    (args.fn = "detect" /\ result # None) =>
        /\ Unwrap(result).kind = ByPriority(Present(args.types))
        /\ detect(Exchanged(args.types)) = Unwrap(result).kind
        /\ detect(Rotated(args.types)) = Unwrap(result).kind

\* a Double, an absent and a BigInt candidate have been detected as Double
C22_Witness ==
    /\ args.fn = "detect"
    /\ args.types = <<Some("Double"), None, Some("BigInt")>>
    /\ result # None
    /\ Unwrap(result).kind = "Double"

\* C23: appending the candidate of an Empty or Error cell (None) to a candidate
\* list leaves the detected kind unchanged, and appending a Varchar candidate
\* gives Varchar.
C23_InferenceMonotone ==
    (args.fn = "detect" /\ result # None) =>
        /\ args.cell.kind \in {"Empty", "Error"}
               => Unwrap(result).grown = Unwrap(result).kind
        /\ from(args.cell.kind, args.cell.value) = None
               => Unwrap(result).grown = Unwrap(result).kind
        /\ args.cell.kind \in {"InlineString", "SharedString"}
               => Unwrap(result).grown = "Varchar"

\* an Error cell has been added to a sample of dates, and a string cell to a
\* sample of numbers
C23_Witness ==
    /\ args.fn = "detect"
    /\ result # None
    /\ \/ /\ args.cell.kind = "Error"
          /\ args.types = <<Some("Date"), Some("Date")>>
          /\ Unwrap(result).grown = "Date"
       \/ /\ args.cell.kind = "InlineString"
          /\ args.types = <<Some("BigInt"), Some("Double")>>
          /\ Unwrap(result).kind = "Double"
          /\ Unwrap(result).grown = "Varchar"

----------------------------------------------------------------------------
(* Claims about the sheet model: panics, empty rows, limits and bounds *)

\* C24: finish(end_at_empty_row) completes without panicking for every range,
\* rows_limit, skip_empty_rows, end_at_empty_row and push sequence, the empty
\* one included.
C24_FinishNeverPanics ==
    [][(phase = "reading") => (phase' # "panicked")]_vars

\* C25: on a finished sheet chunk(i) returns without panicking for every i:
\* None for i >= |chunks| and a table otherwise, also when the sheet has chunks
\* but no cells and the range gives no column bounds.
C25_ChunkNeverPanics ==
    [][(phase = "finished") =>
           /\ phase' # "panicked"
           /\ \A index \in 0..Len(sheet.chunks) :
                  ~chunk_panics(sheet, index)
                      => (chunk(sheet, index) = None <=> index >= Len(sheet.chunks))]_vars

\* the sheet after the pushes of `cells`, in order
RECURSIVE Replay(_, _)
Replay(s, cells) ==
    IF cells = <<>> THEN s ELSE Replay(push(s, Head(cells)), Tail(cells))

\* the finished sheet the same pushes give with skip_empty_rows = false, the
\* same column bounds and no row bounds
Unskipped(s, end_at_empty_row) ==
    finish(Replay(Sheet_new([s.range EXCEPT !.row_lower_bound = None,
                                            !.row_upper_bound = None],
                            s.limit, FALSE),
                  s.cells),
           end_at_empty_row)

\* the populated rows of the tables of all chunks, as <<chunk, row of the table>>
PopulatedKeys(s) ==
    UNION {{<<i, e.row>> : e \in Unwrap(chunk(s, i)).some} :
               i \in 0..(Len(s.chunks) - 1)}

\* a materialized row: the cell at each of its populated columns
RowContent(s, key) ==
    {<<e.col, e.index>> :
        e \in {x \in Unwrap(chunk(s, key[1])).some : x.row = key[2]}}

\* the populated rows over all chunks in order
PopulatedRows(s) ==
    LET keys == PopulatedKeys(s)
        Before(a, b) == a[1] < b[1] \/ (a[1] = b[1] /\ a[2] < b[2])
    IN  [k \in 1..Cardinality(keys) |->
            RowContent(s, CHOOSE key \in keys :
                              Cardinality({o \in keys : Before(o, key)}) = k - 1)]

\* C26: for the same pushes and column bounds, the rows materialized over all
\* chunks with skip_empty_rows = true are the rows materialized with
\* skip_empty_rows = false and no row bounds without the all-empty rows: no
\* emitted row is empty and every populated row has the same content.
C26_SkipKeepsPopulatedRows ==
    (phase = "finished" /\ sheet.skip_empty_rows) =>
        /\ \A i \in 0..(Len(sheet.chunks) - 1) :
               Unwrap(chunk(sheet, i)).rows
                   = Cardinality({e.row : e \in Unwrap(chunk(sheet, i)).some})
        /\ PopulatedRows(sheet)
               = PopulatedRows(Unskipped(sheet, criteria.end_at_empty_row))

LastPushedRow(s) ==
    IF s.cells = <<>> THEN None ELSE Some(s.cells[Len(s.cells)].row)

\* C28: the final high row finish uses is range.row_upper only when it is given
\* and skip_empty_rows and end_at_empty_row are both false, else the last
\* pushed cell's row: with either flag set no chunk has rH beyond the last
\* pushed row, and with no cells and no applicable range.row_upper no chunk is
\* emitted at all.
C28_FinalHighRow ==
    (phase = "finished") =>
        LET applicable == IF ~sheet.skip_empty_rows /\ ~criteria.end_at_empty_row
                          THEN sheet.range.row_upper_bound ELSE None
            R == IF applicable # None THEN applicable ELSE LastPushedRow(sheet)
        IN  /\ finish_row_upper_bound(sheet, criteria.end_at_empty_row) = R
            /\ R = None => sheet.chunks = <<>>
            /\ R # None => /\ sheet.chunks # <<>>
                           /\ sheet.chunks[Len(sheet.chunks)][2] = Unwrap(R)
            /\ \A k \in 1..Len(sheet.chunks) : sheet.chunks[k][2] <= Unwrap(R)

\* a sheet finished with a flag set, a larger range.row_upper, and chunks
C28_Witness ==
    /\ phase = "finished"
    /\ sheet.skip_empty_rows \/ criteria.end_at_empty_row
    /\ sheet.cells # <<>>
    /\ sheet.chunks # <<>>
    /\ \E b \in sheet.range.row_upper_bound : sheet.cells[Len(sheet.cells)].row < b

\* the columns of the pushed cells
PushedCols(s) == {s.cells[k].col : k \in 1..Len(s.cells)}

\* C29: after any sequence of pushes the data bounds reflect the pushed cells
\* only, whatever the range: row_lower_bound is the first pushed cell's row,
\* row_upper_bound the last pushed cell's row, col_lower_bound and
\* col_upper_bound the least and greatest column of the pushed cells, and all
\* four are unset while no cell has been pushed.
C29_BoundsReflectPushedCells ==
    IF sheet.cells = <<>>
    THEN /\ sheet.row_lower_bound = None
         /\ sheet.row_upper_bound = None
         /\ sheet.col_lower_bound = None
         /\ sheet.col_upper_bound = None
    ELSE /\ sheet.row_lower_bound = Some(sheet.cells[1].row)
         /\ sheet.row_upper_bound = LastPushedRow(sheet)
         /\ \E c \in PushedCols(sheet) :
                /\ sheet.col_lower_bound = Some(c)
                /\ \A o \in PushedCols(sheet) : c <= o
         /\ \E c \in PushedCols(sheet) :
                /\ sheet.col_upper_bound = Some(c)
                /\ \A o \in PushedCols(sheet) : o <= c

\* cells of two rows and two columns, the later one in the lower column, have
\* been pushed to a sheet with a range whose bounds differ from the data's
C29_Witness ==
    /\ Len(sheet.cells) >= 2
    /\ sheet.cells[1].row < sheet.cells[Len(sheet.cells)].row
    /\ sheet.cells[Len(sheet.cells)].col < sheet.cells[1].col
    /\ sheet.range.row_upper_bound # None
    /\ sheet.range.row_upper_bound # sheet.row_upper_bound

----------------------------------------------------------------------------
(* Claims about the compound file walks *)

Ended == phase \in {"loaded", "failed", "panicked"}

\* C30: Cfb::new terminates on every input file: the DIFAT walk and the
\* chain walk of read_bytes end after finitely many steps, also when the
\* next-sector word of a sector names a sector already visited.
C30_WalksTerminate == (reader.fmt = "cfb") => <>Ended

----------------------------------------------------------------------------
(* Claims about the chunk-emit function *)

\* the indices obtained so far: those of the calls that have ended and those
\* of the calls between their two steps
Obtained == [i \in 0..(func.index + MaxCalls) |->
                Cardinality({k \in 1..Len(func.out) : func.out[k].index = i})
                + Cardinality({t \in Threads : func.call[t] = Some(i)})]

\* C8: under any interleaving of func calls on one init state over N chunks,
\* no two calls obtain the same index, the indices obtained are 0, 1, 2, ...
\* without a gap, so that every chunk in [0, N) the counter has passed is
\* emitted by exactly one call, with its rows, and a call with an index >= N
\* emits zero rows.
C8_EachChunkEmittedOnce ==
    LET N == Len(sheet.chunks)
    IN  /\ \A i \in DOMAIN Obtained : Obtained[i] = IF i < func.index THEN 1 ELSE 0
        /\ \A k \in 1..Len(func.out) :
              IF func.out[k].index < N
              THEN func.out[k].len = sheet.chunks[func.out[k].index + 1][2]
                                     - sheet.chunks[func.out[k].index + 1][1] + 1
              ELSE func.out[k].len = 0
        /\ (\A t \in Threads : func.call[t] = None) =>
              \A i \in 0..(N - 1) :
                  i < func.index =>
                      Cardinality({k \in 1..Len(func.out) : func.out[k].index = i}) = 1

C8_Witness ==
    /\ Len(sheet.chunks) = MaxChunks
    /\ Len(func.out) = MaxCalls
    /\ func.out[1].index = 1
    /\ func.out[2].index = 0
    /\ func.out[1].len > 0
    /\ func.out[MaxCalls].len = 0

====
